---- MODULE Spec2Model ----
(***************************************************************************)
(* A model of rabin-b-tree: the content-defined chunker (chunk.ts), the    *)
(* RabinList (rabin-list.ts) and the RabinBTree (rabin-b-tree.ts) over a   *)
(* content-addressed block store.                                          *)
(*                                                                         *)
(* A CID is modelled by the value it is the hash of (an injective hash):   *)
(*   - an element CID (caller data) is [elem |-> n];                       *)
(*   - the CID of a list node is  [leaf, count, hashes];                   *)
(*   - the CID of a map node is   [leaf, count, keys, hashes].             *)
(* The store is the set of the CIDs of the blocks that were put.           *)
(* JavaScript arrays keep their 0-based indices; Arr(s, i) reads s[i].     *)
(* 32-bit unsigned words are kept as two 16-bit limbs <<hi, lo>>.          *)
(***************************************************************************)
EXTENDS Integers, Sequences, FiniteSets, TLC

\* ------------------------------------------------------------------------
\* JavaScript array helpers
\* ------------------------------------------------------------------------
\* const v = ...: the value v, evaluated once and before the rest F of the
\* block
Let(v, F(_)) == CHOOSE r \in {F(x) : x \in {v}} : TRUE

\* the same for a value the block reads on some of its paths only, where it
\* is defined: v is evaluated where F uses it
Lazy(v, F(_)) == F(v)

Min(a, b) == IF a < b THEN a ELSE b

Max(a, b) == IF a > b THEN a ELSE b

\* s[i], 0-based
Arr(s, i) == s[i + 1]

\* s.slice(lo, hi)
Slice(s, lo, hi) == SubSeq(s, lo + 1, Min(hi, Len(s)))

\* s.splice(start, deleteCount, ...ins), the array afterwards
ArraySplice(s, start, deleteCount, ins) ==
    LET a == Min(Max(start, 0), Len(s))
        d == Min(Max(deleteCount, 0), Len(s) - a)
    IN  SubSeq(s, 1, a) \o ins \o SubSeq(s, a + d + 1, Len(s))

\* xs.map(() => 1)
Ones(xs) == [i \in 1..Len(xs) |-> 1]

\* helpers.ts sum: sum of x[start .. end-1] (by halving, see chunk.ts below)
RECURSIVE sum(_, _, _)
sum(x, start, end) ==
    IF end <= start THEN 0
    ELSE IF end = start + 1 THEN Arr(x, start)
    ELSE Let((start + end) \div 2, LAMBDA mid :
             sum(x, start, mid) + sum(x, mid, end))

\* ------------------------------------------------------------------------
\* chunk.ts
\* ------------------------------------------------------------------------
MIN_SIZE == 64

MAX_SIZE == 1024

\* 2^16, the limb base
W16 == 256 * 256

\* 0x88000000 and 0x03000000 as <<hi limb, lo limb>>
MASK_HI == <<34816, 0>>

MASK_LO == <<768, 0>>

\* ~0 is the signed number -1 in JavaScript
UINT32_MASK == -1

ZERO32 == <<0, 0>>

\* The last four bytes <<b[n-4], b[n-3], b[n-2], b[n-1]>> of a CID.  For an
\* element they are caller data, one of three tails (element 1, the even
\* elements, the other odd ones); for a node they come from the hasher, here
\* a digest of the node's shape.
ElemTail(n) ==
    CASE n = 1     -> <<0, 0, 0, 0>>
      [] n % 2 = 0 -> <<128, 0, 0, 0>>
      [] OTHER     -> <<1, 0, 0, 0>>

CidTail(cid) ==
    IF "elem" \in DOMAIN cid
    THEN ElemTail(cid.elem)
    ELSE <<(37 * Len(cid.hashes) + (IF cid.leaf THEN 11 ELSE 0)) % 256,
           (5 * sum(cid.count, 0, Len(cid.count))) % 256,
           Len(cid.hashes) % 256,
           (sum(cid.count, 0, Len(cid.count)) + 1) % 256>>

\* gear(cid): bytes[n-1] + (bytes[n-2] << 8) + (bytes[n-3] << 16) +
\* (bytes[n-4] << 24).  The last shift is a signed 32-bit one, so the value
\* is u - 2^32 when bytes[n-4] >= 128 (neg), and u otherwise, where u is the
\* unsigned word of the four bytes.
gear(cid) ==
    Let(cid, LAMBDA c : Let(CidTail(c), LAMBDA b :
        [neg |-> b[1] >= 128, u |-> <<b[1] * 256 + b[2], b[3] * 256 + b[4]>>]))

\* (v << 1) >>> 0
Shl1(v) ==
    LET l2 == 2 * v[2]
        h2 == 2 * v[1] + (l2 \div W16)
    IN  <<h2 % W16, l2 % W16>>

\* The number s + g of JavaScript, s an unsigned word and g a gear value, as
\* ov * 2^32 + low with low an unsigned word and ov in {-1, 0, 1}.
AddGear(s, g) ==
    LET l == s[2] + g.u[2]
        h == s[1] + g.u[1] + (l \div W16)
    IN  [ov  |-> (h \div W16) - (IF g.neg THEN 1 ELSE 0),
         low |-> <<h % W16, l % W16>>]

\* x > UINT32_MASK: the low word is >= 0 and < 2^32, so x > -1 exactly when
\* ov > -1
GtMask(x) == x.ov > UINT32_MASK

RECURSIVE BitAnd(_, _)
BitAnd(a, b) ==
    IF a = 0 \/ b = 0 THEN 0
    ELSE (a % 2) * (b % 2) + 2 * BitAnd(a \div 2, b \div 2)

\* (mask & v) === 0
MaskClear(mask, v) == BitAnd(mask[1], v[1]) = 0 /\ BitAnd(mask[2], v[2]) = 0

\* one fingerprint update (chunk.ts 34-36 and 39-41)
FpStep(f, cid) ==
    Let(AddGear(Shl1(f.flo), gear(cid)), LAMBDA x :
        LET h2 == Shl1(f.fhi)
            hc == h2[2] + (IF GtMask(x) THEN 1 ELSE 0)
        IN  [flo |-> x.low,
             fhi |-> <<(h2[1] + (hc \div W16)) % W16, hc % W16>>])

\* The loops below run over arrays of a hundred and more entries.  They are
\* evaluated by halving the index range [lo, hi): the left half is finished
\* before the right half starts from its result, so the entries are visited
\* in the loop's order and the evaluation depth stays logarithmic.

\* the first loop: the updates for data[lo .. hi-1], no boundary test
RECURSIVE WarmUp(_, _, _, _)
WarmUp(data, lo, hi, f) ==
    IF hi <= lo THEN f
    ELSE IF hi = lo + 1 THEN FpStep(f, Arr(data, lo))
    ELSE Let((lo + hi) \div 2, LAMBDA mid :
         Let(WarmUp(data, lo, mid, f), LAMBDA g :
             IF g.flo[1] >= 0 THEN WarmUp(data, mid, hi, g) ELSE g))

\* the second loop over data[lo .. hi-1]: update, then test the masks and
\* return the index after the entry (cut) or go on to the end
RECURSIVE CutLoop(_, _, _, _)
CutLoop(data, lo, hi, f) ==
    IF hi <= lo THEN [cut |-> FALSE, ptr |-> lo, f |-> f]
    ELSE IF hi = lo + 1
    THEN Let(FpStep(f, Arr(data, lo)), LAMBDA g :
             [cut |-> MaskClear(MASK_HI, g.fhi) /\ MaskClear(MASK_LO, g.flo),
              ptr |-> lo + 1, f |-> g])
    ELSE Let((lo + hi) \div 2, LAMBDA mid :
         Let(CutLoop(data, lo, mid, f), LAMBDA l :
             IF l.cut THEN l ELSE CutLoop(data, mid, hi, l.f)))

\* nextChunk without the limit of MAX_SIZE entries
nextChunkUnlimited(data, start) ==
    LET n == Len(data) - start
    IN  IF n < MIN_SIZE
        THEN Len(data)
        ELSE Let(WarmUp(data, start, start + MIN_SIZE,
                        [flo |-> ZERO32, fhi |-> ZERO32]), LAMBDA w :
                 CutLoop(data, start + MIN_SIZE, start + n, w).ptr)

nextChunk(data, start) ==
    LET n == Min(Len(data) - start, MAX_SIZE)
    IN  IF n < MIN_SIZE
        THEN Len(data)
        ELSE Let(WarmUp(data, start, start + MIN_SIZE,
                        [flo |-> ZERO32, fhi |-> ZERO32]), LAMBDA w :
                 CutLoop(data, start + MIN_SIZE, start + n, w).ptr)

\* ------------------------------------------------------------------------
\* rabin-list.ts: node codec
\* ------------------------------------------------------------------------
\* Results of the operations: "ok", or the error that was thrown.
\*   "oob"     the 'index out of bounds' errors
\*   "invalid" parseNode failed: no such block (a TypeError on the undefined
\*             block) or a block that is no node (the 'invalid node' error)
\*   "type"    a TypeError on an undefined stack frame
NoCid == [none |-> TRUE]

ListFields == {"leaf", "count", "hashes"}

ListNode(leaf, counts, hashes) ==
    [leaf |-> leaf, count |-> counts, hashes |-> hashes]

\* serializeNode over a store that keeps the last block only
serializeNodeLastOnly(st, leaf, counts, hashes) ==
    [cid |-> ListNode(leaf, counts, hashes),
     st  |-> {ListNode(leaf, counts, hashes)}]

\* storage.put of the encoded block; the CID is the hash of the value
serializeNode(st, leaf, counts, hashes) ==
    [cid |-> ListNode(leaf, counts, hashes),
     st  |-> st \cup {ListNode(leaf, counts, hashes)}]

\* storage.get and the shape checks; an element block parses to no node
parseNode(st, cid) ==
    IF cid \in st /\ DOMAIN cid = ListFields /\ Len(cid.count) = Len(cid.hashes)
    THEN [ok |-> TRUE, leaf |-> cid.leaf, count |-> cid.count,
          hashes |-> cid.hashes]
    ELSE [ok |-> FALSE, leaf |-> FALSE, count |-> <<>>, hashes |-> <<>>]

\* The for loop of a rank descent over count[lo .. hi-1]: the first i with
\* ptr < count[i] (strict, as in at and scan) or ptr <= count[i] (as in
\* splice), ptr reduced by the counts passed over.
RECURSIVE Slot(_, _, _, _, _)
Slot(count, lo, hi, ptr, strict) ==
    IF hi <= lo THEN [found |-> FALSE, i |-> lo, ptr |-> ptr]
    ELSE IF hi = lo + 1
    THEN IF (strict /\ ptr < Arr(count, lo)) \/ (~strict /\ ptr <= Arr(count, lo))
         THEN [found |-> TRUE, i |-> lo, ptr |-> ptr]
         ELSE [found |-> FALSE, i |-> hi, ptr |-> ptr - Arr(count, lo)]
    ELSE LET mid == (lo + hi) \div 2
             l   == Slot(count, lo, mid, ptr, strict)
         IN  IF l.found THEN l ELSE Slot(count, mid, hi, l.ptr, strict)

\* ------------------------------------------------------------------------
\* RabinList.create
\* ------------------------------------------------------------------------
\* the for (lo ...) loop of one level
RECURSIVE createLevel(_, _, _, _, _, _, _)
createLevel(st, leaf, prevCount, prevHashes, lo, nextCount, nextHashes) ==
    IF lo < Len(prevHashes)
    THEN Let(nextChunk(prevHashes, lo), LAMBDA c :
         Let(IF c < 0 THEN Len(prevHashes) ELSE c, LAMBDA hi :
         Let(serializeNode(st, leaf, Slice(prevCount, lo, hi),
                           Slice(prevHashes, lo, hi)), LAMBDA n :
             createLevel(n.st, leaf, prevCount, prevHashes, hi,
                         Append(nextCount, sum(prevCount, lo, hi)),
                         Append(nextHashes, n.cid)))))
    ELSE [st |-> st, count |-> nextCount, hashes |-> nextHashes]

\* the level loop of create with every level flagged leaf
RECURSIVE createLoopAllLeaf(_, _, _, _)
createLoopAllLeaf(st, leaf, prevCount, prevHashes) ==
    Let(createLevel(st, leaf, prevCount, prevHashes, 0, <<>>, <<>>), LAMBDA l :
        IF Len(l.hashes) # 1
        THEN createLoopAllLeaf(l.st, TRUE, l.count, l.hashes)
        ELSE [status |-> "ok", root |-> l.hashes[1], st |-> l.st])

\* the do ... while (prevHashes.length !== 1) loop
RECURSIVE createLoop(_, _, _, _)
createLoop(st, leaf, prevCount, prevHashes) ==
    Let(createLevel(st, leaf, prevCount, prevHashes, 0, <<>>, <<>>), LAMBDA l :
        IF Len(l.hashes) # 1
        THEN createLoop(l.st, FALSE, l.count, l.hashes)
        ELSE [status |-> "ok", root |-> l.hashes[1], st |-> l.st])

create(st, hashes) ==
    IF Len(hashes) = 0
    THEN LET n == serializeNode(st, TRUE, <<>>, <<>>)
         IN  [status |-> "ok", root |-> n.cid, st |-> n.st]
    ELSE createLoop(st, TRUE, Ones(hashes), hashes)

\* ------------------------------------------------------------------------
\* RabinList.at and RabinList.size
\* ------------------------------------------------------------------------
\* at with the test ptr <= count (the one of splice) for ptr < count
RECURSIVE atLoopInclusive(_, _, _)
atLoopInclusive(st, cid, ptr) ==
    Let(parseNode(st, cid), LAMBDA block :
    Let(Slot(block.count, 0, Len(block.count), ptr, FALSE), LAMBDA s :
        IF ~block.ok THEN [status |-> "invalid", value |-> NoCid]
        ELSE IF ~s.found THEN [status |-> "oob", value |-> NoCid]
        ELSE IF block.leaf
        THEN [status |-> "ok", value |-> Arr(block.hashes, s.i)]
        ELSE atLoopInclusive(st, Arr(block.hashes, s.i), s.ptr)))

RECURSIVE atLoop(_, _, _)
atLoop(st, cid, ptr) ==
    Let(parseNode(st, cid), LAMBDA block :
    Let(Slot(block.count, 0, Len(block.count), ptr, TRUE), LAMBDA s :
        IF ~block.ok THEN [status |-> "invalid", value |-> NoCid]
        ELSE IF ~s.found THEN [status |-> "oob", value |-> NoCid]
        ELSE IF block.leaf
        THEN [status |-> "ok", value |-> Arr(block.hashes, s.i)]
        ELSE atLoop(st, Arr(block.hashes, s.i), s.ptr)))

at(st, root, index) ==
    IF index < 0 THEN [status |-> "oob", value |-> NoCid]
    ELSE atLoop(st, root, index)

\* size as the number of children of the root node
sizeOfChildren(st, root) ==
    LET node == parseNode(st, root)
    IN  IF node.ok
        THEN [status |-> "ok", value |-> Len(node.hashes)]
        ELSE [status |-> "invalid", value |-> 0]

size(st, root) ==
    LET node == parseNode(st, root)
    IN  IF node.ok
        THEN [status |-> "ok", value |-> sum(node.count, 0, Len(node.count))]
        ELSE [status |-> "invalid", value |-> 0]

\* ------------------------------------------------------------------------
\* RabinList.splice
\* ------------------------------------------------------------------------
\* levels is the JavaScript array levels: Lv(levels, i) is levels[i]
Lv(levels, i) == levels[i + 1]

EmptyLevel == [start |-> 0, end |-> 0, count |-> <<>>, hashes |-> <<>>]

\* The search_loop of splice.  levels is built in reverse (the items level
\* first, the root's level last), as levels.reverse() leaves it.  cid ===
\* root compares references: it holds on the first round only.
RECURSIVE spliceDescend(_, _, _, _, _, _)
spliceDescend(st, cid, first, ptr, items, levels) ==
    Let(parseNode(st, cid), LAMBDA block :
    Let(Slot(block.count, 0, Len(block.count), ptr, FALSE), LAMBDA s :
    Lazy([start  |-> s.i + (IF s.ptr = Arr(block.count, s.i) /\ block.leaf
                           THEN 1 ELSE 0),
         end    |-> s.i + 1,
         count  |-> block.count,
         hashes |-> block.hashes], LAMBDA lvl :
        IF ~block.ok THEN [tag |-> "invalid", levels |-> levels]
        ELSE IF first /\ Len(block.hashes) = 0
        THEN [tag |-> "empty", levels |-> levels]
        ELSE IF ~s.found THEN [tag |-> "oob", levels |-> levels]
        ELSE IF block.leaf
        THEN [tag    |-> "ok",
              levels |-> <<[start |-> 0, end |-> 0, count |-> Ones(items),
                            hashes |-> items], lvl>> \o levels]
        ELSE spliceDescend(st, Arr(block.hashes, s.i), FALSE, s.ptr, items,
                           <<lvl>> \o levels))))

\* extendLevel(level): ok is its return value, err is set when it threw
RECURSIVE extendLevel(_, _, _)
extendLevel(st, levels, level) ==
    IF level = Len(levels) - 1
    THEN [ok |-> FALSE, err |-> FALSE, levels |-> levels]
    ELSE LET p0 == Lv(levels, level + 1)
         IN  Let(IF p0.end = Len(p0.count)
                 THEN extendLevel(st, levels, level + 1)
                 ELSE [ok |-> TRUE, err |-> FALSE, levels |-> levels], LAMBDA r :
             IF ~r.ok THEN r
             ELSE LET parent == Lv(r.levels, level + 1)
                  IN  Let(IF parent.end < Len(parent.hashes)
                          THEN parseNode(st, Arr(parent.hashes, parent.end))
                          ELSE parseNode(st, NoCid), LAMBDA node :
                      IF ~node.ok
                      THEN [ok |-> FALSE, err |-> TRUE, levels |-> r.levels]
                      ELSE [ok |-> TRUE, err |-> FALSE,
                            levels |-> [r.levels EXCEPT
                                ![level + 2].end = @ + 1,
                                ![level + 1].count = @ \o node.count,
                                ![level + 1].hashes = @ \o node.hashes]]))

\* the bottom level without the extension through the right siblings: the
\* deletion stops at the end of the leaf
extendBottomInLeaf(st, levels) ==
    LET bottom == Lv(levels, 1)
    IN  [err |-> FALSE,
         levels |-> [levels EXCEPT ![2].end = Min(bottom.end, Len(bottom.count))]]

\* while (bottom.count.length < bottom.end) extendLevel(1)
RECURSIVE extendBottom(_, _)
extendBottom(st, levels) ==
    LET bottom == Lv(levels, 1)
    IN  IF Len(bottom.count) < bottom.end
        THEN Let(extendLevel(st, levels, 1), LAMBDA e :
             IF e.err THEN [err |-> TRUE, levels |-> levels]
             ELSE IF ~e.ok
             THEN [err |-> FALSE,
                   levels |-> [e.levels EXCEPT ![2].end = Len(bottom.count)]]
             ELSE extendBottom(st, e.levels))
        ELSE [err |-> FALSE, levels |-> levels]

\* while (hi < 0) { extendLevel(i + 1) ... } for the chunk that starts at lo
RECURSIVE seamExtend(_, _, _, _, _)
seamExtend(st, levels, i, lo, hi) ==
    IF hi < 0
    THEN Let(extendLevel(st, levels, i + 1), LAMBDA e :
             IF e.err THEN [err |-> TRUE, levels |-> levels, hi |-> hi]
             ELSE IF ~e.ok
             THEN [err |-> FALSE, levels |-> e.levels,
                   hi |-> Len(Lv(e.levels, i + 1).hashes)]
             ELSE seamExtend(st, e.levels, i, lo,
                             nextChunk(Lv(e.levels, i + 1).hashes, lo)))
    ELSE [err |-> FALSE, levels |-> levels, hi |-> hi]

\* the re-emission of a level with the count of every node emitted taken as 1
RECURSIVE rechunkCountsOne(_, _, _, _, _, _)
rechunkCountsOne(st, levels, i, lo, nextCount, nextHashes) ==
    LET parent == Lv(levels, i + 1)
    IN  IF lo < Len(parent.count)
        THEN Let(nextChunk(parent.hashes, lo), LAMBDA hi :
             Let(seamExtend(st, levels, i, lo, hi),
                 LAMBDA h :
             Let(Lv(h.levels, i + 1), LAMBDA p :
             Let(serializeNode(st, i = 0, Slice(p.count, lo, h.hi),
                               Slice(p.hashes, lo, h.hi)), LAMBDA n :
                 IF h.err THEN [err |-> TRUE, st |-> st, levels |-> levels]
                 ELSE rechunkCountsOne(n.st, h.levels, i, h.hi,
                                       Append(nextCount, 1),
                                       Append(nextHashes, n.cid))))))
        ELSE [err |-> FALSE, st |-> st,
              levels |-> [levels EXCEPT ![i + 2].hashes = nextHashes,
                                        ![i + 2].count = nextCount]]

\* 'recompute parent node hashes': the for (lo ...) loop over the parent
\* level levels[i + 1] and the two assignments after it
RECURSIVE rechunk(_, _, _, _, _, _)
rechunk(st, levels, i, lo, nextCount, nextHashes) ==
    LET parent == Lv(levels, i + 1)
    IN  IF lo < Len(parent.count)
        THEN Let(nextChunk(parent.hashes, lo), LAMBDA hi :
             Let(seamExtend(st, levels, i, lo, hi),
                 LAMBDA h :
             Let(Lv(h.levels, i + 1), LAMBDA p :
             Let(serializeNode(st, i = 0, Slice(p.count, lo, h.hi),
                               Slice(p.hashes, lo, h.hi)), LAMBDA n :
                 IF h.err THEN [err |-> TRUE, st |-> st, levels |-> levels]
                 ELSE rechunk(n.st, h.levels, i, h.hi,
                              Append(nextCount, sum(p.count, lo, h.hi)),
                              Append(nextHashes, n.cid))))))
        ELSE [err |-> FALSE, st |-> st,
              levels |-> [levels EXCEPT ![i + 2].hashes = nextHashes,
                                        ![i + 2].count = nextCount]]

\* 'now rebuild tree, scanning from bottom up': the for (i ...) loop
RECURSIVE rebuildLevels(_, _, _)
rebuildLevels(st, levels, i) ==
    IF i < Len(levels)
    THEN LET lv1    == IF i = Len(levels) - 1
                       THEN Append(levels, EmptyLevel) ELSE levels
             parent == Lv(lv1, i + 1)
             lv2    == [lv1 EXCEPT
                          ![i + 2].count = ArraySplice(parent.count, parent.start,
                              parent.end - parent.start, Lv(lv1, i).count),
                          ![i + 2].hashes = ArraySplice(parent.hashes, parent.start,
                              parent.end - parent.start, Lv(lv1, i).hashes)]
         IN  Let(rechunk(st, lv2, i, 0, <<>>, <<>>), LAMBDA c :
             IF c.err THEN c
             ELSE IF i + 2 = Len(c.levels) /\ Len(Lv(c.levels, i + 1).hashes) <= 1
             THEN c
             ELSE rebuildLevels(c.st, c.levels, i + 1))
    ELSE [err |-> FALSE, st |-> st, levels |-> levels]

\* 'collapse tree levels which are singletons': the while (true) loop
RECURSIVE collapseLoop(_, _)
collapseLoop(st, result) ==
    LET b == parseNode(st, result)
    IN  IF ~b.ok THEN [status |-> "invalid", root |-> NoCid, st |-> st]
        ELSE IF Len(b.hashes) # 1
        THEN [status |-> "ok", root |-> result, st |-> st]
        ELSE collapseLoop(st, b.hashes[1])

\* collapse without the test for an empty head: head.hashes[0] is undefined
collapseNoEmptyTest(st, head) ==
    IF Len(head.hashes) = 0
    THEN [status |-> "invalid", root |-> NoCid, st |-> st]
    ELSE collapseLoop(st, head.hashes[1])

\* the end of splice: head = levels.pop(), the empty node if head has no
\* hashes, else the collapse loop from head.hashes[0]
collapse(st, head) ==
    LET e == serializeNode(st, TRUE, <<>>, <<>>)
    IN  IF Len(head.hashes) = 0
        THEN [status |-> "ok", root |-> e.cid, st |-> e.st]
        ELSE collapseLoop(st, head.hashes[1])

splice(st, root, start, deleteCount, items) ==
    IF start < 0 THEN [status |-> "oob", root |-> NoCid, st |-> st]
    ELSE
    Let(spliceDescend(st, root, TRUE, start, items, <<>>), LAMBDA d :
        IF d.tag = "empty" THEN create(st, items)
        ELSE IF d.tag # "ok" THEN [status |-> d.tag, root |-> NoCid, st |-> st]
        ELSE
        LET b0   == Lv(d.levels, 1)
            lv0  == [d.levels EXCEPT ![2].end = b0.start + deleteCount]
        IN  Let(extendBottom(st, lv0), LAMBDA x :
            Let(rebuildLevels(st, x.levels, 0), LAMBDA r :
            IF x.err \/ r.err
            THEN [status |-> "invalid", root |-> NoCid,
                  st |-> IF x.err THEN st ELSE r.st]
            ELSE collapse(r.st, r.levels[Len(r.levels)]))))

\* ------------------------------------------------------------------------
\* RabinList.scan
\* ------------------------------------------------------------------------
\* Infinity is a number above every rank and count of the model;
\* Infinity - n is Infinity.
Infinity == 1000000

Minus(c, n) == IF c = Infinity THEN Infinity ELSE c - n

\* An options object: has is the set of the keys it holds ('lo' in options).
Opt(has, lo, hi, limit) == [has |-> has, lo |-> lo, hi |-> hi, limit |-> limit]

\* the search_loop of scan: the stack of frames, the leaf's frame last.
\* hit is FALSE when the generator returned (ptr past the end).
RECURSIVE scanDescend(_, _, _, _)
scanDescend(st, cid, ptr, stack) ==
    Let(parseNode(st, cid), LAMBDA block :
    Let(Slot(block.count, 0, Len(block.count), ptr, TRUE), LAMBDA s :
    Let([index |-> s.i, hashes |-> block.hashes], LAMBDA frame :
        IF ~block.ok THEN [status |-> "invalid", hit |-> FALSE, stack |-> stack]
        ELSE IF ~s.found THEN [status |-> "ok", hit |-> FALSE, stack |-> stack]
        ELSE IF block.leaf
        THEN [status |-> "ok", hit |-> TRUE, stack |-> Append(stack, frame)]
        ELSE scanDescend(st, Arr(block.hashes, s.i), s.ptr, Append(stack, frame)))))

\* 'otherwise we pop hashes off recursively': push frames down to a leaf
RECURSIVE scanPush(_, _, _)
scanPush(st, cid, stack) ==
    LET block == parseNode(st, cid)
        frame == [index |-> 0, hashes |-> block.hashes]
    IN  IF ~block.ok THEN [status |-> "invalid", stack |-> stack]
        ELSE IF block.leaf THEN [status |-> "ok", stack |-> Append(stack, frame)]
        ELSE scanPush(st, block.hashes[1], Append(stack, frame))

\* 'walk to next node in stack': status "ok" with a leaf frame on top, "done"
\* when the generator returned, "type" when stack[stack.length - 1] is
\* undefined and top.index throws
RECURSIVE scanWalk(_, _)
scanWalk(st, stack) ==
    IF Len(stack) = 0 THEN [status |-> "type", stack |-> stack]
    ELSE LET k   == Len(stack)
             top == [stack[k] EXCEPT !.index = @ + 1]
             s1  == [stack EXCEPT ![k] = top]
         IN  IF top.index >= Len(top.hashes)
             THEN IF k = 1 THEN [status |-> "done", stack |-> <<>>]
                  ELSE scanWalk(st, SubSeq(s1, 1, k - 1))
             ELSE scanPush(st, Arr(top.hashes, top.index), s1)

\* while (count > 0): out is the sequence of the values yielded so far
RECURSIVE scanLoop(_, _, _, _)
scanLoop(st, stack, count, out) ==
    IF count > 0
    THEN LET k    == Len(stack)
             top  == stack[k]
             n    == Min(count, Len(top.hashes) - top.index)
             out1 == out \o Slice(top.hashes, top.index, top.index + n)
             c1   == Minus(count, n)
         IN  IF c1 <= 0 THEN [status |-> "done", out |-> out1]
             ELSE Let(scanWalk(st, SubSeq(stack, 1, k - 1)), LAMBDA w :
                  IF w.status = "ok" THEN scanLoop(st, w.stack, c1, out1)
                  ELSE [status |-> w.status, out |-> out1])
    ELSE [status |-> "done", out |-> out]

scan(st, root, options) ==
    LET start == Max(IF "lo" \in options.has THEN options.lo ELSE 0, 0)
        end   == IF "hi" \in options.has THEN options.hi ELSE Infinity
        count == Min(Minus(end, start),
                     IF "limit" \in options.has THEN options.limit ELSE Infinity)
    IN  IF count < 0 THEN [status |-> "done", out |-> <<>>]
        ELSE Let(scanDescend(st, root, start, <<>>), LAMBDA d :
             IF d.status # "ok" THEN [status |-> d.status, out |-> <<>>]
             ELSE IF ~d.hit THEN [status |-> "done", out |-> <<>>]
             ELSE scanLoop(st, d.stack, count, <<>>))

\* ------------------------------------------------------------------------
\* rabin-b-tree.ts: comparator, findPred, node codec
\* ------------------------------------------------------------------------
\* The comparator given to the constructor; keys are numbers here, ordered
\* as the tests' comparator orders strings (-1, 0, 1).
compare(a, b) == IF a < b THEN -1 ELSE IF a = b THEN 0 ELSE 1

\* The first i in [lo, hi) at which findPred's loop breaks
\* (compare(items[i], key) > 0), hi when it runs to the end.
RECURSIVE predBreak(_, _, _, _)
predBreak(items, lo, hi, key) ==
    IF hi <= lo THEN lo
    ELSE IF hi = lo + 1
    THEN IF compare(Arr(items, lo), key) <= 0 THEN hi ELSE lo
    ELSE LET mid == (lo + hi) \div 2
             l   == predBreak(items, lo, mid, key)
         IN  IF l < mid THEN l ELSE predBreak(items, mid, hi, key)

\* helpers.ts findPred: index of the last of the leading items <= key, or -1
findPred(items, key) == predBreak(items, 0, Len(items), key) - 1

MapFields == {"leaf", "count", "keys", "hashes"}

MapNode(leaf, counts, keys, hashes) ==
    [leaf |-> leaf, count |-> counts, keys |-> keys, hashes |-> hashes]

btSerializeNode(st, leaf, counts, keys, hashes) ==
    [cid |-> MapNode(leaf, counts, keys, hashes),
     st  |-> st \cup {MapNode(leaf, counts, keys, hashes)}]

btParseNode(st, cid) ==
    IF /\ cid \in st
       /\ DOMAIN cid = MapFields
       /\ Len(cid.count) = Len(cid.keys)
       /\ Len(cid.count) = Len(cid.hashes)
    THEN [ok |-> TRUE, leaf |-> cid.leaf, count |-> cid.count,
          keys |-> cid.keys, hashes |-> cid.hashes]
    ELSE [ok |-> FALSE, leaf |-> FALSE, count |-> <<>>, keys |-> <<>>,
          hashes |-> <<>>]

\* ------------------------------------------------------------------------
\* RabinBTree.create.  A JavaScript Map is [order, val]: the keys in
\* insertion order and the value of each key.
\* ------------------------------------------------------------------------
EmptyMap == [order |-> <<>>, val |-> <<>>]

MapHas(m, k) == \E i \in 1..Len(m.order) : m.order[i] = k

MapGet(m, k) == m.val[CHOOSE i \in 1..Len(m.order) : m.order[i] = k]

\* Map.set: a new key goes last, a present key keeps its place
MapSet(m, k, v) ==
    IF MapHas(m, k)
    THEN [m EXCEPT !.val[CHOOSE i \in 1..Len(m.order) : m.order[i] = k] = v]
    ELSE [order |-> Append(m.order, k), val |-> Append(m.val, v)]

\* Map.delete
MapDelete(m, k) ==
    IF MapHas(m, k)
    THEN LET i == CHOOSE j \in 1..Len(m.order) : m.order[j] = k
         IN  [order |-> SubSeq(m.order, 1, i - 1) \o SubSeq(m.order, i + 1, Len(m.order)),
              val   |-> SubSeq(m.val, 1, i - 1) \o SubSeq(m.val, i + 1, Len(m.val))]
    ELSE m

RECURSIVE btCreateLevel(_, _, _, _, _, _, _, _, _)
btCreateLevel(st, leaf, prevCount, prevKeys, prevHashes, lo, nextCount, nextKeys, nextHashes) ==
    IF lo < Len(prevHashes)
    THEN Let(nextChunk(prevHashes, lo), LAMBDA c :
         Let(IF c < 0 THEN Len(prevHashes) ELSE c, LAMBDA hi :
         Let(btSerializeNode(st, leaf, Slice(prevCount, lo, hi),
                             Slice(prevKeys, lo, hi), Slice(prevHashes, lo, hi)),
             LAMBDA n :
             btCreateLevel(n.st, leaf, prevCount, prevKeys, prevHashes, hi,
                           Append(nextCount, sum(prevCount, lo, hi)),
                           Append(nextKeys, Arr(prevKeys, lo)),
                           Append(nextHashes, n.cid)))))
    ELSE [st |-> st, count |-> nextCount, keys |-> nextKeys, hashes |-> nextHashes]

RECURSIVE btCreateLoop(_, _, _, _, _)
btCreateLoop(st, leaf, prevCount, prevKeys, prevHashes) ==
    Let(btCreateLevel(st, leaf, prevCount, prevKeys, prevHashes, 0,
                      <<>>, <<>>, <<>>), LAMBDA l :
        IF Len(l.hashes) # 1
        THEN btCreateLoop(l.st, FALSE, l.count, l.keys, l.hashes)
        ELSE [status |-> "ok", root |-> l.hashes[1], st |-> l.st])

btCreate(st, data) ==
    IF Len(data.order) = 0
    THEN LET n == btSerializeNode(st, TRUE, <<>>, <<>>, <<>>)
         IN  [status |-> "ok", root |-> n.cid, st |-> n.st]
    ELSE LET prevKeys == SortSeq(data.order, LAMBDA a, b : compare(a, b) < 0)
             pos      == [k \in {data.order[i] : i \in 1..Len(data.order)} |->
                             CHOOSE i \in 1..Len(data.order) : data.order[i] = k]
         IN  btCreateLoop(st, TRUE, Ones(prevKeys), prevKeys,
                          [i \in 1..Len(prevKeys) |-> data.val[pos[prevKeys[i]]]])

\* ------------------------------------------------------------------------
\* RabinBTree.at, eq, size
\* ------------------------------------------------------------------------
NoEntry == [key |-> -1, value |-> NoCid]

RECURSIVE btAtLoop(_, _, _)
btAtLoop(st, cid, ptr) ==
    Let(btParseNode(st, cid), LAMBDA block :
    Let(Slot(block.count, 0, Len(block.count), ptr, TRUE), LAMBDA s :
        IF ~block.ok THEN [status |-> "invalid", value |-> NoEntry]
        ELSE IF ~s.found THEN [status |-> "oob", value |-> NoEntry]
        ELSE IF block.leaf
        THEN [status |-> "ok",
              value  |-> [key |-> Arr(block.keys, s.i), value |-> Arr(block.hashes, s.i)]]
        ELSE btAtLoop(st, Arr(block.hashes, s.i), s.ptr)))

btAt(st, root, index) ==
    IF index < 0 THEN [status |-> "oob", value |-> NoEntry]
    ELSE btAtLoop(st, root, index)

\* value NoCid with status "ok" is the result null
RECURSIVE eq(_, _, _)
eq(st, cid, key) ==
    Let(btParseNode(st, cid), LAMBDA block :
    Let(findPred(block.keys, key), LAMBDA idx :
        IF ~block.ok THEN [status |-> "invalid", value |-> NoCid]
        ELSE IF idx < 0 THEN [status |-> "ok", value |-> NoCid]
        ELSE IF block.leaf
        THEN IF compare(Arr(block.keys, idx), key) = 0
             THEN [status |-> "ok", value |-> Arr(block.hashes, idx)]
             ELSE [status |-> "ok", value |-> NoCid]
        ELSE eq(st, Arr(block.hashes, idx), key)))

btSize(st, root) ==
    LET node == btParseNode(st, root)
    IN  IF node.ok
        THEN [status |-> "ok", value |-> sum(node.count, 0, Len(node.count))]
        ELSE [status |-> "invalid", value |-> 0]

\* ------------------------------------------------------------------------
\* RabinBTree._levels, _extend, _rebuild, upsert, remove
\* ------------------------------------------------------------------------
btEmptyLevel ==
    [start |-> 0, end |-> 0, count |-> <<>>, keys |-> <<>>, hashes |-> <<>>]

\* _levels: tag "empty" is the return of [] for an empty root; levels is
\* in the order levels.reverse() leaves (payload level first, root last)
RECURSIVE btLevels(_, _, _, _, _)
btLevels(st, cid, first, key, levels) ==
    Let(btParseNode(st, cid), LAMBDA block :
    Let(findPred(block.keys, key), LAMBDA idx :
    Let(Max(idx, 0), LAMBDA i :
    Let(IF idx >= 0
        THEN IF compare(Arr(block.keys, idx), key) = 0 THEN idx ELSE idx + 1
        ELSE i, LAMBDA start :
        IF ~block.ok THEN [tag |-> "invalid", levels |-> levels]
        ELSE IF first /\ Len(block.hashes) = 0
        THEN [tag |-> "empty", levels |-> <<>>]
        ELSE IF block.leaf
        THEN [tag    |-> "ok",
              levels |-> <<btEmptyLevel,
                           [start |-> start, end |-> idx + 1, count |-> block.count,
                            keys |-> block.keys, hashes |-> block.hashes]>>
                         \o levels]
        ELSE btLevels(st, Arr(block.hashes, i), FALSE, key,
                      <<[start |-> i, end |-> i + 1, count |-> block.count,
                         keys |-> block.keys, hashes |-> block.hashes]>> \o levels)))))

RECURSIVE btExtend(_, _, _)
btExtend(st, levels, level) ==
    IF level = Len(levels) - 1
    THEN [ok |-> FALSE, err |-> FALSE, levels |-> levels]
    ELSE LET p0 == Lv(levels, level + 1)
         IN  Let(IF p0.end = Len(p0.count)
                 THEN btExtend(st, levels, level + 1)
                 ELSE [ok |-> TRUE, err |-> FALSE, levels |-> levels], LAMBDA r :
             IF ~r.ok THEN r
             ELSE LET parent == Lv(r.levels, level + 1)
                  IN  Let(IF parent.end < Len(parent.hashes)
                          THEN btParseNode(st, Arr(parent.hashes, parent.end))
                          ELSE btParseNode(st, NoCid), LAMBDA node :
                      IF ~node.ok
                      THEN [ok |-> FALSE, err |-> TRUE, levels |-> r.levels]
                      ELSE [ok |-> TRUE, err |-> FALSE,
                            levels |-> [r.levels EXCEPT
                                ![level + 2].end = @ + 1,
                                ![level + 1].count = @ \o node.count,
                                ![level + 1].keys = @ \o node.keys,
                                ![level + 1].hashes = @ \o node.hashes]]))

RECURSIVE btSeamExtend(_, _, _, _, _)
btSeamExtend(st, levels, i, lo, hi) ==
    IF hi < 0
    THEN Let(btExtend(st, levels, i + 1), LAMBDA e :
             IF e.err THEN [err |-> TRUE, levels |-> levels, hi |-> hi]
             ELSE IF ~e.ok
             THEN [err |-> FALSE, levels |-> e.levels,
                   hi |-> Len(Lv(e.levels, i + 1).hashes)]
             ELSE btSeamExtend(st, e.levels, i, lo,
                               nextChunk(Lv(e.levels, i + 1).hashes, lo)))
    ELSE [err |-> FALSE, levels |-> levels, hi |-> hi]

\* the re-emission of a level with the key of every node emitted taken from
\* its last child
RECURSIVE btRechunkLastKey(_, _, _, _, _, _, _)
btRechunkLastKey(st, levels, i, lo, nextCount, nextKeys, nextHashes) ==
    LET parent == Lv(levels, i + 1)
    IN  IF lo < Len(parent.count)
        THEN Let(nextChunk(parent.hashes, lo), LAMBDA hi :
             Let(btSeamExtend(st, levels, i, lo, hi),
                 LAMBDA h :
             Let(Lv(h.levels, i + 1), LAMBDA p :
             Let(btSerializeNode(st, i = 0, Slice(p.count, lo, h.hi),
                                 Slice(p.keys, lo, h.hi), Slice(p.hashes, lo, h.hi)),
                 LAMBDA n :
                 IF h.err THEN [err |-> TRUE, st |-> st, levels |-> levels]
                 ELSE btRechunkLastKey(n.st, h.levels, i, h.hi,
                                Append(nextCount, sum(p.count, lo, h.hi)),
                                Append(nextKeys, Arr(p.keys, h.hi - 1)),
                                Append(nextHashes, n.cid))))))
        ELSE [err |-> FALSE, st |-> st,
              levels |-> [levels EXCEPT ![i + 2].count = nextCount,
                                        ![i + 2].keys = nextKeys,
                                        ![i + 2].hashes = nextHashes]]

RECURSIVE btRechunk(_, _, _, _, _, _, _)
btRechunk(st, levels, i, lo, nextCount, nextKeys, nextHashes) ==
    LET parent == Lv(levels, i + 1)
    IN  IF lo < Len(parent.count)
        THEN Let(nextChunk(parent.hashes, lo), LAMBDA hi :
             Let(btSeamExtend(st, levels, i, lo, hi),
                 LAMBDA h :
             Let(Lv(h.levels, i + 1), LAMBDA p :
             Let(btSerializeNode(st, i = 0, Slice(p.count, lo, h.hi),
                                 Slice(p.keys, lo, h.hi), Slice(p.hashes, lo, h.hi)),
                 LAMBDA n :
                 IF h.err THEN [err |-> TRUE, st |-> st, levels |-> levels]
                 ELSE btRechunk(n.st, h.levels, i, h.hi,
                                Append(nextCount, sum(p.count, lo, h.hi)),
                                Append(nextKeys, Arr(p.keys, lo)),
                                Append(nextHashes, n.cid))))))
        ELSE [err |-> FALSE, st |-> st,
              levels |-> [levels EXCEPT ![i + 2].count = nextCount,
                                        ![i + 2].keys = nextKeys,
                                        ![i + 2].hashes = nextHashes]]

RECURSIVE btRebuildLevels(_, _, _)
btRebuildLevels(st, levels, i) ==
    IF i < Len(levels)
    THEN LET lv1    == IF i = Len(levels) - 1
                       THEN Append(levels, btEmptyLevel) ELSE levels
             parent == Lv(lv1, i + 1)
             dc     == parent.end - parent.start
             lv2    == [lv1 EXCEPT
                          ![i + 2].count = ArraySplice(parent.count, parent.start, dc,
                                                       Lv(lv1, i).count),
                          ![i + 2].keys = ArraySplice(parent.keys, parent.start, dc,
                                                      Lv(lv1, i).keys),
                          ![i + 2].hashes = ArraySplice(parent.hashes, parent.start, dc,
                                                        Lv(lv1, i).hashes)]
         IN  Let(btRechunk(st, lv2, i, 0, <<>>, <<>>, <<>>), LAMBDA c :
             IF c.err THEN c
             ELSE IF i + 2 = Len(c.levels) /\ Len(Lv(c.levels, i + 1).hashes) <= 1
             THEN c
             ELSE btRebuildLevels(c.st, c.levels, i + 1))
    ELSE [err |-> FALSE, st |-> st, levels |-> levels]

\* 'collapse tree levels which are singletons': the while (true) loop
RECURSIVE btCollapseLoop(_, _)
btCollapseLoop(st, result) ==
    LET block == btParseNode(st, result)
    IN  IF ~block.ok THEN [status |-> "invalid", root |-> NoCid, st |-> st]
        ELSE IF Len(block.hashes) = 1
        THEN btCollapseLoop(st, block.hashes[1])
        ELSE [status |-> "ok", root |-> result, st |-> st]

\* the end of _rebuild: head = levels.pop(), the empty node if head has no
\* hashes, else the collapse loop from head.hashes[0]
btCollapse(st, head) ==
    LET e == btSerializeNode(st, TRUE, <<>>, <<>>, <<>>)
    IN  IF Len(head.hashes) = 0
        THEN [status |-> "ok", root |-> e.cid, st |-> e.st]
        ELSE btCollapseLoop(st, head.hashes[1])

\* _rebuild
btRebuild(st, levels) ==
    Let(btRebuildLevels(st, levels, 0), LAMBDA r :
        IF r.err THEN [status |-> "invalid", root |-> NoCid, st |-> r.st]
        ELSE btCollapse(r.st, r.levels[Len(r.levels)]))

upsert(st, root, key, value) ==
    Let(btLevels(st, root, TRUE, key, <<>>), LAMBDA l :
    Let(btSerializeNode(st, TRUE, <<1>>, <<key>>, <<value>>), LAMBDA n :
        IF l.tag = "invalid" THEN [status |-> "invalid", root |-> NoCid, st |-> st]
        ELSE IF Len(l.levels) = 0
        THEN [status |-> "ok", root |-> n.cid, st |-> n.st]
        ELSE btRebuild(st, [l.levels EXCEPT ![1].count = Append(@, 1),
                                            ![1].keys = Append(@, key),
                                            ![1].hashes = Append(@, value)])))

\* remove without the test for an absent key
removeAlwaysRebuilds(st, root, key) ==
    Let(btLevels(st, root, TRUE, key, <<>>), LAMBDA l :
    Let(btSerializeNode(st, TRUE, <<>>, <<>>, <<>>), LAMBDA n :
        IF l.tag = "invalid" THEN [status |-> "invalid", root |-> NoCid, st |-> st]
        ELSE IF Len(l.levels) <= 1
        THEN [status |-> "ok", root |-> n.cid, st |-> n.st]
        ELSE btRebuild(st, l.levels)))

remove(st, root, key) ==
    Let(btLevels(st, root, TRUE, key, <<>>), LAMBDA l :
    Let(btSerializeNode(st, TRUE, <<>>, <<>>, <<>>), LAMBDA n :
        IF l.tag = "invalid" THEN [status |-> "invalid", root |-> NoCid, st |-> st]
        ELSE IF Len(l.levels) <= 1
        THEN [status |-> "ok", root |-> n.cid, st |-> n.st]
        ELSE IF Lv(l.levels, 1).start = Lv(l.levels, 1).end
        THEN [status |-> "ok", root |-> root, st |-> st]
        ELSE btRebuild(st, l.levels)))

\* ------------------------------------------------------------------------
\* RabinBTree.scan
\* ------------------------------------------------------------------------
\* An options object of the map scan: has is the set of the keys it holds.
BtOpt(has, lo, hi, startKey, endKey, limit) ==
    [has |-> has, lo |-> lo, hi |-> hi, lt |-> startKey, le |-> startKey,
     gt |-> endKey, ge |-> endKey, limit |-> limit]

\* the key descent (lt or le given): count is reduced on the way
RECURSIVE btScanKeyDescend(_, _, _, _, _)
btScanKeyDescend(st, cid, key, count, stack) ==
    Let(btParseNode(st, cid), LAMBDA block :
    Let(Max(findPred(block.keys, key), 0), LAMBDA idx :
    Let(Minus(count, sum(block.count, 0, idx)), LAMBDA c1 :
    Let(Append(stack, [index |-> idx, keys |-> block.keys,
                       hashes |-> block.hashes]), LAMBDA s1 :
        IF ~block.ok
        THEN [status |-> "invalid", hit |-> FALSE, count |-> count, stack |-> stack]
        ELSE IF block.leaf
        THEN [status |-> "ok", hit |-> TRUE, count |-> c1, stack |-> s1]
        ELSE IF idx < Len(block.hashes)
        THEN btScanKeyDescend(st, Arr(block.hashes, idx), key, c1, s1)
        ELSE [status |-> "invalid", hit |-> FALSE, count |-> c1, stack |-> s1]))))

\* the rank descent
RECURSIVE btScanDescend(_, _, _, _)
btScanDescend(st, cid, ptr, stack) ==
    Let(btParseNode(st, cid), LAMBDA block :
    Let(Slot(block.count, 0, Len(block.count), ptr, TRUE), LAMBDA s :
    Let([index |-> s.i, keys |-> block.keys, hashes |-> block.hashes],
        LAMBDA frame :
        IF ~block.ok THEN [status |-> "invalid", hit |-> FALSE, stack |-> stack]
        ELSE IF ~s.found THEN [status |-> "ok", hit |-> FALSE, stack |-> stack]
        ELSE IF block.leaf
        THEN [status |-> "ok", hit |-> TRUE, stack |-> Append(stack, frame)]
        ELSE btScanDescend(st, Arr(block.hashes, s.i), s.ptr, Append(stack, frame)))))

RECURSIVE btScanPush(_, _, _)
btScanPush(st, cid, stack) ==
    LET block == btParseNode(st, cid)
        frame == [index |-> 0, keys |-> block.keys, hashes |-> block.hashes]
    IN  IF ~block.ok THEN [status |-> "invalid", stack |-> stack]
        ELSE IF block.leaf THEN [status |-> "ok", stack |-> Append(stack, frame)]
        ELSE btScanPush(st, block.hashes[1], Append(stack, frame))

RECURSIVE btScanWalk(_, _)
btScanWalk(st, stack) ==
    IF Len(stack) = 0 THEN [status |-> "type", stack |-> stack]
    ELSE LET k   == Len(stack)
             top == [stack[k] EXCEPT !.index = @ + 1]
             s1  == [stack EXCEPT ![k] = top]
         IN  IF top.index >= Len(top.hashes)
             THEN IF k = 1 THEN [status |-> "done", stack |-> <<>>]
                  ELSE btScanWalk(st, SubSeq(s1, 1, k - 1))
             ELSE btScanPush(st, Arr(top.hashes, top.index), s1)

\* the end predicate of the leaf loop: TRUE when the loop breaks at key
endBreak(options, key) ==
    IF "gt" \in options.has THEN compare(options.gt, key) >= 0
    ELSE IF "ge" \in options.has THEN compare(options.ge, key) > 0
    ELSE FALSE

\* the first ptr in [lo, hi) at which the leaf loop breaks, hi if none
RECURSIVE leafBreak(_, _, _, _)
leafBreak(keys, lo, hi, options) ==
    IF hi <= lo THEN lo
    ELSE IF hi = lo + 1
    THEN IF endBreak(options, Arr(keys, lo)) THEN lo ELSE hi
    ELSE LET mid == (lo + hi) \div 2
             l   == leafBreak(keys, lo, mid, options)
         IN  IF l < mid THEN l ELSE leafBreak(keys, mid, hi, options)

\* 'handle boundary case for lt': compare(undefined, lt) is not 0
RECURSIVE ltSkip(_, _, _)
ltSkip(keys, index, key) ==
    IF index < Len(keys) /\ compare(Arr(keys, index), key) = 0
    THEN ltSkip(keys, index + 1, key)
    ELSE index

RECURSIVE btScanLoop(_, _, _, _, _)
btScanLoop(st, stack, count, options, out) ==
    IF count > 0
    THEN LET k    == Len(stack)
             top  == stack[k]
             n    == Min(count, Len(top.hashes) - top.index)
             stop == leafBreak(top.keys, top.index, top.index + n, options)
             out1 == out \o [j \in 1..(stop - top.index) |->
                               [key   |-> Arr(top.keys, top.index + j - 1),
                                value |-> Arr(top.hashes, top.index + j - 1)]]
             c1   == Minus(count, n)
         IN  IF c1 <= 0 THEN [status |-> "done", out |-> out1]
             ELSE Let(btScanWalk(st, SubSeq(stack, 1, k - 1)), LAMBDA w :
                  IF w.status = "ok" THEN btScanLoop(st, w.stack, c1, options, out1)
                  ELSE [status |-> w.status, out |-> out1])
    ELSE [status |-> "done", out |-> out]

btScan(st, root, options) ==
    LET count0 == IF "hi" \in options.has THEN options.hi ELSE Infinity
        byKey  == "lt" \in options.has \/ "le" \in options.has
        key    == IF "lt" \in options.has THEN options.lt ELSE options.le
        ptr    == Max(IF "lo" \in options.has THEN options.lo ELSE 0, 0)
    IN  Let(IF byKey THEN btScanKeyDescend(st, root, key, count0, <<>>)
            ELSE Let(btScanDescend(st, root, ptr, <<>>), LAMBDA rd :
                     [status |-> rd.status, hit |-> rd.hit,
                      count |-> Minus(count0, ptr), stack |-> rd.stack]),
            LAMBDA d :
        LET count1 == IF "limit" \in options.has THEN Min(d.count, options.limit)
                      ELSE d.count
            k      == Len(d.stack)
            stack1 == IF "lt" \in options.has
                      THEN [d.stack EXCEPT ![k].index =
                                ltSkip(d.stack[k].keys, @, options.lt)]
                      ELSE d.stack
        IN  IF d.status # "ok" THEN [status |-> d.status, out |-> <<>>]
            ELSE IF ~d.hit THEN [status |-> "done", out |-> <<>>]
            ELSE IF Len(d.stack[1].hashes) = 0 THEN [status |-> "done", out |-> <<>>]
            ELSE btScanLoop(st, stack1, count1, options, <<>>))

\* ------------------------------------------------------------------------
\* The state machine: one collection (a list or a map) over one store, the
\* operations of its API applied to the root the caller holds.
\* ------------------------------------------------------------------------
VARIABLES
    store,   \* MemoryStorage._blocks: the CIDs of the blocks put so far
    kind,    \* "none" before create, then "list" or "map"
    root,    \* the root CID the caller holds (the last one returned)
    list,    \* the plain array that has had the same splices applied
    map,     \* the plain Map that has had the same upserts and removes
    hist,    \* every root returned so far, with what was read from it then
    last,    \* the last call: operation, arguments, result
    ops      \* number of mutations called (splice, upsert, remove)

vars == <<store, kind, root, list, map, hist, last, ops>>

\* --- bounds and inputs ---------------------------------------------------
\* mutations in one behaviour
MaxOps == 2

\* the initial lists and maps hold up to MaxLeaves full leaves
MaxLeaves == 2

E(n) == [elem |-> n]

Run(e, n) == [i \in 1..n |-> E(e)]

\* the list E(2), E(4), .. E(2n) of n distinct even elements
Evens(n) == [i \in 1..n |-> E(2 * i)]

\* A run of even elements is cut by the chunker after every MIN_SIZE + 1
\* entries; element 1 in the window of a cut removes it.
LeafLen == MIN_SIZE + 1

ListInputs ==
    {Evens(n) : n \in {0, 1, 2}}
    \cup {Evens(k * LeafLen + d) : k \in 1..MaxLeaves, d \in {0, 1}}
    \cup {Run(1, 40) \o Evens(LeafLen + 10)}

\* <<start, deleteCount, items>> for a list of n elements: insert at the
\* front, in the middle and at the end, delete in the middle, delete the
\* first, all but the first, all (deleteCount past the end), replace the
\* second half (deleteCount past the end), and a start past the end.
SpliceInputs(n) ==
    {<<0, 0, <<E(1)>>>>, <<n \div 2, 0, <<E(1)>>>>, <<n, 0, <<E(2)>>>>,
     <<n \div 2, 1, <<>>>>, <<0, 1, <<>>>>, <<1, n - 1, <<>>>>,
     <<0, n + 1, <<>>>>, <<n \div 2, n + 1, <<E(2), E(4)>>>>,
     <<n + 1, 0, <<E(1)>>>>}

\* the map of the keys 2, 4, .. 2n, inserted in descending order, the key k
\* with the value E(k), the key 2 * a (if any) with the value E(1)
MapOf(n, a) ==
    [order |-> [i \in 1..n |-> 2 * (n + 1 - i)],
     val   |-> [i \in 1..n |-> IF n + 1 - i = a THEN E(1) ELSE E(2 * (n + 1 - i))]]

MapInputs ==
    {MapOf(n, 0) : n \in {0, 1, 2}}
    \cup {MapOf(k * LeafLen + d, 0) : k \in 1..MaxLeaves, d \in {0, 1}}
    \cup {MapOf(LeafLen + 30, 20)}

\* the keys tried on a map of n keys: below all, the first, a present and
\* an absent one in the middle, the last of the initial keys, above all
KeyInputs(n) ==
    {1, 2, 2 * ((n + 1) \div 2), 2 * ((n + 1) \div 2) + 1, 2 * n, 2 * n + 1}

\* <<key, value>> of an upsert into a map of n keys: a key below all, the
\* first key with the value it was created with, a key in the middle with
\* another value, an absent key in the middle, a key above all
UpsertInputs(n) ==
    {<<1, E(2)>>, <<2, E(2)>>, <<2 * ((n + 1) \div 2), E(1)>>,
     <<2 * ((n + 1) \div 2) + 1, E(2)>>, <<2 * n + 1, E(4)>>}

\* the key of a remove: the first, one in the middle, the last of the
\* initial keys, one above all
RemoveInputs(n) == {2, 2 * ((n + 1) \div 2), 2 * n, 2 * n + 1}

\* the ranks tried on a collection of n elements
Ranks(n) == {r \in {0, 1, n \div 2, LeafLen, n - 1, n, n + 1} : r >= 0}

\* the limit of a scan of n elements
Limits(n) == {0, 1, LeafLen, n, n + 1}

\* the options of a rank scan: none, lo, hi, both; hi may be Infinity; and
\* a limit, alone or with lo and hi
ScanInputs(n) ==
    {Opt({}, 0, 0, 0)}
    \cup {Opt({"lo"}, lo, 0, 0) : lo \in Ranks(n)}
    \cup {Opt({"hi"}, 0, hi, 0) : hi \in Ranks(n) \cup {Infinity}}
    \cup {Opt({"lo", "hi"}, lo, hi, 0) :
              lo \in Ranks(n), hi \in Ranks(n) \cup {Infinity}}
    \cup {Opt({"limit"}, 0, 0, limit) : limit \in Limits(n)}
    \cup {Opt({"lo", "hi", "limit"}, lo, hi, limit) :
              lo \in {0, 1}, hi \in {n - 1, n, Infinity}, limit \in Limits(n)}

\* keys present in the map of the keys 2 .. 2n: the first, the middle, the
\* last of the first leaf, the first of the second leaf, the last
PresentKeys(n) ==
    {k \in {2, 2 * ((n + 1) \div 2), 2 * LeafLen, 2 * LeafLen + 2, 2 * n} :
        2 <= k /\ k <= 2 * n}

\* the options of a map scan: by rank; { le: a, gt: b } and { le: a, ge: b }
\* for present keys a <= b; a start key alone, present or absent, as le
\* and as lt, also with a limit
MapScanInputs(n) ==
    {BtOpt(o.has, o.lo, o.hi, 0, 0, o.limit) : o \in ScanInputs(n)}
    \cup {BtOpt({"le", end}, 0, 0, ab[1], ab[2], 0) :
              end \in {"gt", "ge"},
              ab \in {x \in PresentKeys(n) \X PresentKeys(n) : x[1] <= x[2]}}
    \cup {BtOpt({start}, 0, 0, k, 0, 0) :
              start \in {"le", "lt"}, k \in KeyInputs(n)}
    \cup {BtOpt({start, "limit"}, 0, 0, k, 0, limit) :
              start \in {"le", "lt"}, k \in KeyInputs(n), limit \in {1, LeafLen}}

\* the plain Map as the sequence of its entries in key order
Entries(m) ==
    LET ks == SortSeq(m.order, LAMBDA a, b : a < b)
    IN  [i \in 1..Len(ks) |-> [key |-> ks[i], value |-> MapGet(m, ks[i])]]

\* a call and its outcome: in is the record of its arguments; want is, for
\* a mutation, the plain array or Map after the same mutation
Call(op, status, res, in, want) ==
    [op |-> op, status |-> status, res |-> res, in |-> in, want |-> want]

NoArgs == [none |-> TRUE]

\* what a caller reads from a list root: size, full scan, first and last
NoOpt == Opt({}, 0, 0, 0)

ListReads(st, r) ==
    LET n == size(st, r).value
    IN  <<size(st, r), scan(st, r, NoOpt), at(st, r, 0), at(st, r, n - 1)>>

\* what a caller reads from a map root: size, full scan, last entry, eq
BtNoOpt == BtOpt({}, 0, 0, 0, 0, 0)

MapReads(st, r) ==
    LET n == btSize(st, r).value
    IN  <<btSize(st, r), btScan(st, r, BtNoOpt), btAt(st, r, n - 1),
          [k \in KeyInputs(n) |-> eq(st, r, k)]>>

Init ==
    /\ store = {}
    /\ kind = "none"
    /\ root = NoCid
    /\ list = <<>>
    /\ map = EmptyMap
    /\ hist = {}
    /\ last = Call("init", "ok", NoCid, NoArgs, NoArgs)
    /\ ops = 0

\* root = await LIST.create(xs)
ListCreate(xs) ==
    /\ kind = "none"
    /\ LET r == create(store, xs)
       IN  /\ store' = r.st
           /\ root' = r.root
           /\ hist' = hist \cup {[root |-> r.root, reads |-> ListReads(r.st, r.root)]}
           /\ last' = Call("create", r.status, r.root, [items |-> xs], xs)
    /\ kind' = "list"
    /\ list' = xs
    /\ UNCHANGED <<map, ops>>

\* root = await LIST.splice(root, start, deleteCount, ...items); when the
\* call throws, the caller keeps the root it had
Splice(start, deleteCount, items) ==
    /\ kind = "list"
    /\ last.op \in {"create", "splice"}
    /\ ops < MaxOps
    /\ LET r == splice(store, root, start, deleteCount, items)
       IN  /\ store' = r.st
           /\ last' = Call("splice", r.status, r.root,
                           [start |-> start, deleteCount |-> deleteCount,
                            items |-> items, size |-> Len(list)],
                           ArraySplice(list, start, deleteCount, items))
           /\ IF r.status = "ok"
              THEN /\ root' = r.root
                   /\ list' = ArraySplice(list, start, deleteCount, items)
                   /\ hist' = hist \cup {[root |-> r.root,
                                          reads |-> ListReads(r.st, r.root)]}
              ELSE UNCHANGED <<root, list, hist>>
    /\ ops' = ops + 1
    /\ UNCHANGED <<kind, map>>

\* root = await BTREE.create(m)
MapCreate(m) ==
    /\ kind = "none"
    /\ LET r == btCreate(store, m)
       IN  /\ store' = r.st
           /\ root' = r.root
           /\ hist' = hist \cup {[root |-> r.root, reads |-> MapReads(r.st, r.root)]}
           /\ last' = Call("create", r.status, r.root, [data |-> m], m)
    /\ kind' = "map"
    /\ map' = m
    /\ UNCHANGED <<list, ops>>

\* root = await BTREE.upsert(root, key, value)
Upsert(key, value) ==
    /\ kind = "map"
    /\ last.op \in {"create", "upsert", "remove"}
    /\ ops < MaxOps
    /\ LET r == upsert(store, root, key, value)
       IN  /\ store' = r.st
           /\ last' = Call("upsert", r.status, r.root,
                           [key |-> key, value |-> value, had |-> MapHas(map, key)],
                           MapSet(map, key, value))
           /\ IF r.status = "ok"
              THEN /\ root' = r.root
                   /\ map' = MapSet(map, key, value)
                   /\ hist' = hist \cup {[root |-> r.root,
                                          reads |-> MapReads(r.st, r.root)]}
              ELSE UNCHANGED <<root, map, hist>>
    /\ ops' = ops + 1
    /\ UNCHANGED <<kind, list>>

\* root = await BTREE.remove(root, key)
Remove(key) ==
    /\ kind = "map"
    /\ last.op \in {"create", "upsert", "remove"}
    /\ ops < MaxOps
    /\ LET r == remove(store, root, key)
       IN  /\ store' = r.st
           /\ last' = Call("remove", r.status, r.root,
                           [key |-> key, had |-> MapHas(map, key)],
                           MapDelete(map, key))
           /\ IF r.status = "ok"
              THEN /\ root' = r.root
                   /\ map' = MapDelete(map, key)
                   /\ hist' = hist \cup {[root |-> r.root,
                                          reads |-> MapReads(r.st, r.root)]}
              ELSE UNCHANGED <<root, map, hist>>
    /\ ops' = ops + 1
    /\ UNCHANGED <<kind, list>>

\* a read of the root just created; the call is kept in last
Read(op, status, res, in) ==
    /\ last.op = "create"
    /\ last' = Call(op, status, res, in, NoArgs)
    /\ UNCHANGED <<store, kind, root, list, map, hist, ops>>

\* await LIST.at(root, index)
ListAt(index) ==
    /\ kind = "list"
    /\ LET r == at(store, root, index)
       IN  Read("at", r.status, r.value, [index |-> index])

\* await LIST.size(root)
ListSize ==
    /\ kind = "list"
    /\ LET r == size(store, root)
       IN  Read("size", r.status, r.value, NoArgs)

\* for await (const x of LIST.scan(root, options)): res is the sequence of
\* the elements yielded, status how the generator ended
ListScan(options) ==
    /\ kind = "list"
    /\ LET r == scan(store, root, options)
       IN  Read("scan", r.status, r.out, options)

\* await BTREE.at(root, index)
MapAt(index) ==
    /\ kind = "map"
    /\ LET r == btAt(store, root, index)
       IN  Read("at", r.status, r.value, [index |-> index])

\* await BTREE.eq(root, key)
MapEq(key) ==
    /\ kind = "map"
    /\ LET r == eq(store, root, key)
       IN  Read("eq", r.status, r.value, [key |-> key])

\* await BTREE.size(root)
MapSize ==
    /\ kind = "map"
    /\ LET r == btSize(store, root)
       IN  Read("size", r.status, r.value, NoArgs)

\* for await (const e of BTREE.scan(root, options))
MapScan(options) ==
    /\ kind = "map"
    /\ LET r == btScan(store, root, options)
       IN  Read("scan", r.status, r.out, options)

\* create and the mutations
Next ==
    \/ \E xs \in ListInputs : ListCreate(xs)
    \/ \E in \in SpliceInputs(Len(list)) : Splice(in[1], in[2], in[3])
    \/ \E m \in MapInputs : MapCreate(m)
    \/ \E in \in UpsertInputs(Len(map.order)) : Upsert(in[1], in[2])
    \/ \E k \in RemoveInputs(Len(map.order)) : Remove(k)

Spec == Init /\ [][Next]_vars

\* create and one read of what was created
NextRead ==
    \/ \E xs \in ListInputs : ListCreate(xs)
    \/ \E m \in MapInputs : MapCreate(m)
    \/ \E index \in -1..Len(list) : ListAt(index)
    \/ ListSize
    \/ \E options \in ScanInputs(Len(list)) : ListScan(options)
    \/ \E index \in -1..Len(map.order) : MapAt(index)
    \/ \E key \in 0..(2 * Len(map.order) + 1) : MapEq(key)
    \/ MapSize
    \/ \E options \in MapScanInputs(Len(map.order)) : MapScan(options)

SpecRead == Init /\ [][NextRead]_vars

\* ------------------------------------------------------------------------
\* The chunker on its own: list is the data array, last the call made
\* ------------------------------------------------------------------------
\* the longest data array has MAX_SIZE + MaxOver entries
MaxOver == 6

\* data arrays: runs the chunker never cuts (one odd element repeated), runs
\* it cuts every LeafLen entries (even elements), runs it cuts at the first
\* test (element 1 repeated), of lengths around MIN_SIZE and MAX_SIZE, and a
\* long run without a cut followed by one with cuts
ChunkInputs ==
    {Run(3, n) : n \in {1, 2, MIN_SIZE - 1, MIN_SIZE, LeafLen, MAX_SIZE,
                        MAX_SIZE + 1, MAX_SIZE + MaxOver}}
    \cup {Evens(n) : n \in {MIN_SIZE - 1, MIN_SIZE, LeafLen, LeafLen + 1,
                            2 * LeafLen + MaxOver}}
    \cup {Run(1, n) : n \in {MIN_SIZE, LeafLen, LeafLen + MaxOver}}
    \cup {Run(3, MAX_SIZE - MIN_SIZE) \o Evens(LeafLen + MaxOver),
          Run(1, MIN_SIZE - MaxOver) \o Evens(LeafLen + MaxOver),
          Evens(LeafLen) \o Run(3, LeafLen + MaxOver)}

\* the start of a chunk in an array of n entries: at the front, and at the
\* distances around MIN_SIZE and MAX_SIZE from the end
ChunkStarts(n) ==
    {f \in {0, 1, n - MAX_SIZE - 1, n - MAX_SIZE, n - LeafLen - 1, n - LeafLen,
            n - MIN_SIZE, n - MIN_SIZE + 1, n - 1} : 0 <= f /\ f < n}

InitChunk ==
    /\ store = {}
    /\ kind = "data"
    /\ root = NoCid
    /\ list \in ChunkInputs
    /\ map = EmptyMap
    /\ hist = {}
    /\ last = Call("init", "ok", NoCid, NoArgs, NoArgs)
    /\ ops = 0

\* hi = nextChunk(data, start)
ChunkAt(start) ==
    /\ kind = "data"
    /\ last' = Call("nextChunk", "ok", nextChunk(list, start),
                    [start |-> start, len |-> Len(list)], NoArgs)
    /\ UNCHANGED <<store, kind, root, list, map, hist, ops>>

\* for (lo = 0; lo < data.length; lo = hi) hi = nextChunk(data, lo): the
\* next round of the loop
ChunkLoop ==
    /\ last.op = "nextChunk"
    /\ last.res < Len(list)
    /\ ChunkAt(last.res)

\* the ends hi of the chunks of the loop
\* for (lo = start; lo < data.length; lo = hi) hi = nextChunk(data, lo)
RECURSIVE ChunkEnds(_, _)
ChunkEnds(data, lo) ==
    IF lo >= Len(data) THEN {}
    ELSE Let(nextChunk(data, lo), LAMBDA hi : {hi} \cup ChunkEnds(data, hi))

\* children placed before and after the data array
Surroundings ==
    {<<<<>>, <<>>>>, <<<<>>, <<E(2)>>>>, <<<<E(3)>>, <<>>>>, <<<<E(2)>>, <<>>>>,
     <<Run(3, MIN_SIZE), <<E(3)>>>>, <<Evens(LeafLen), <<>>>>}

\* the level that holds the data array between other children is chunked
\* left to right; res is the set of the boundaries that fall inside the data
\* array, as positions in it
ChunkAround(before, after) ==
    /\ kind = "data"
    /\ last.op = "init"
    /\ last' = Call("chunks", "ok",
                    {hi - Len(before) : hi \in
                        {h \in ChunkEnds(before \o list \o after, 0) :
                             Len(before) < h /\ h < Len(before) + Len(list)}},
                    [before |-> before, after |-> after], NoArgs)
    /\ UNCHANGED <<store, kind, root, list, map, hist, ops>>

\* nextChunk(data, 0) step by step: the entry with n >= MIN_SIZE, ptr = 0
\* and flo = fhi = 0
FpStart ==
    /\ kind = "data"
    /\ last.op = "init"
    /\ Min(Len(list), MAX_SIZE) >= MIN_SIZE
    /\ last' = Call("fp", "run", [flo |-> ZERO32, fhi |-> ZERO32],
                    [ptr |-> 0], NoArgs)
    /\ UNCHANGED <<store, kind, root, list, map, hist, ops>>

\* one round of either loop: the update with data[ptr++], then, from the
\* round MIN_SIZE on, the test of the masks ("cut": return ptr), and the
\* end of the second loop ("end": return ptr).  in keeps the fingerprint
\* before the update and the child consumed.
FpUpdate ==
    /\ last.op = "fp"
    /\ last.status = "run"
    /\ LET ptr == last.in.ptr
           g   == FpStep(last.res, Arr(list, ptr))
       IN  last' = Call("fp",
                        IF /\ ptr >= MIN_SIZE
                           /\ MaskClear(MASK_HI, g.fhi)
                           /\ MaskClear(MASK_LO, g.flo)
                        THEN "cut"
                        ELSE IF ptr + 1 = Min(Len(list), MAX_SIZE) THEN "end"
                        ELSE "run",
                        g, [ptr |-> ptr + 1, f |-> last.res,
                            cid |-> Arr(list, ptr)], NoArgs)
    /\ UNCHANGED <<store, kind, root, list, map, hist, ops>>

NextChunk ==
    \/ \E start \in ChunkStarts(Len(list)) : last.op = "init" /\ ChunkAt(start)
    \/ ChunkLoop
    \/ \E s \in Surroundings : ChunkAround(s[1], s[2])
    \/ FpStart
    \/ FpUpdate

SpecChunk == InitChunk /\ [][NextChunk]_vars

\* ------------------------------------------------------------------------
\* The calls step by step, several of them in flight over one store.
\*
\* An async call runs until it awaits storage.get or storage.put and is
\* resumed when the promise resolves; between the two, the other calls in
\* flight run.  Here hist is the array of the calls in flight, one frame
\* each: the operation op and its arguments in, the place pc where it is
\* suspended, its local variables lv (the levels of splice and _rebuild, or
\* prevCount / prevKeys / prevHashes / leaf of create), the number i of
\* levels emitted, the number kids of children of the level last emitted,
\* the blocks pending in serializeNode (encoded, not yet put), and the
\* result res once it has returned or thrown.  The root, the list and the
\* map are those of the collection created before the calls start.
\*
\* A step is the run of one call between two suspensions: the gets of a
\* descent are one step, every put is a step of its own, and the
\* await Promise.all(nextHashes) of a level resumes when nothing is pending.
\* ------------------------------------------------------------------------
\* the calls in one behaviour
MaxCalls == 2

Idle ==
    [op |-> "none", in |-> NoArgs, pc |-> "idle", lv |-> <<>>, i |-> 0,
     kids |-> 0, pending |-> {}, res |-> NoArgs]

\* return value (or the error thrown) of a call
Returned(tk, status, value) ==
    [tk EXCEPT !.pc = "done", !.res = [status |-> status, value |-> value]]

\* return await this.serializeNode(..): the block is pending, the call
\* returns its CID once it is put
ReturnNode(tk, node) ==
    [tk EXCEPT !.pc = "ret", !.pending = {node},
               !.res = [status |-> "ok", value |-> node]]

\* the blocks a level's serializeNode calls put
Blocks(hashes) == {hashes[j] : j \in 1..Len(hashes)}

\* storage.put(block) of MemoryStorage, keyed by the CID
putLastOnly(st, block) == {block}

put(st, block) == st \cup {block}

\* --- RabinList -------------------------------------------------------------
\* create up to its loop
createCall(tk, items) ==
    IF Len(items) = 0
    THEN ReturnNode(tk, ListNode(TRUE, <<>>, <<>>))
    ELSE [tk EXCEPT !.pc = "level",
                    !.lv = [leaf |-> TRUE, count |-> Ones(items), hashes |-> items]]

\* a call up to its first put: create; splice with its descent and the
\* extension of the bottom level; at
callStep(st, rt, tk) ==
    CASE tk.op = "create" -> createCall(tk, tk.in.items)
      [] tk.op = "at" ->
            Let(at(st, rt, tk.in.index), LAMBDA r : Returned(tk, r.status, r.value))
      [] OTHER ->
            IF tk.in.start < 0 THEN Returned(tk, "oob", NoCid)
            ELSE
            Let(spliceDescend(st, rt, TRUE, tk.in.start, tk.in.items, <<>>), LAMBDA d :
                IF d.tag = "empty" THEN createCall(tk, tk.in.items)
                ELSE IF d.tag # "ok" THEN Returned(tk, d.tag, NoCid)
                ELSE
                Let(extendBottom(st, [d.levels EXCEPT ![2].end =
                        Lv(d.levels, 1).start + tk.in.deleteCount]), LAMBDA x :
                    IF x.err THEN Returned(tk, "invalid", NoCid)
                    ELSE [tk EXCEPT !.pc = "rebuild", !.lv = x.levels]))

\* the do .. while loop of create, resumed: its test (after the first
\* round), then the next round up to await Promise.all(nextHashes)
createStepNoAwait(st, tk) ==
    Let(createLevel(st, tk.lv.leaf, tk.lv.count, tk.lv.hashes, 0, <<>>, <<>>), LAMBDA l :
    Let(createLevel(st, FALSE, l.count, l.hashes, 0, <<>>, <<>>), LAMBDA m :
        IF tk.i > 0 /\ Len(tk.lv.hashes) = 1
        THEN Returned(tk, "ok", tk.lv.hashes[1])
        ELSE IF Len(l.hashes) = 1
        THEN [tk EXCEPT !.lv = [leaf |-> FALSE, count |-> l.count, hashes |-> l.hashes],
                        !.i = @ + 1, !.kids = Len(tk.lv.hashes),
                        !.pending = Blocks(l.hashes)]
        ELSE [tk EXCEPT !.lv = [leaf |-> FALSE, count |-> m.count, hashes |-> m.hashes],
                        !.i = @ + 2, !.kids = Len(l.hashes),
                        !.pending = Blocks(l.hashes) \cup Blocks(m.hashes)]))

createStep(st, tk) ==
    IF tk.i > 0 /\ Len(tk.lv.hashes) = 1
    THEN Returned(tk, "ok", tk.lv.hashes[1])
    ELSE Let(createLevel(st, tk.lv.leaf, tk.lv.count, tk.lv.hashes, 0, <<>>, <<>>),
             LAMBDA l :
             [tk EXCEPT !.lv = [leaf |-> FALSE, count |-> l.count, hashes |-> l.hashes],
                        !.i = @ + 1, !.kids = Len(tk.lv.hashes),
                        !.pending = Blocks(l.hashes)])

\* the end of splice with a collapse loop that never moves to the child:
\* it returns at once or gets the same block for ever
collapseStepSpins(st, tk) ==
    LET head == tk.lv[Len(tk.lv)]
    IN  IF Len(head.hashes) = 0
        THEN ReturnNode(tk, ListNode(TRUE, <<>>, <<>>))
        ELSE Let(parseNode(st, head.hashes[1]), LAMBDA b :
                 IF ~b.ok THEN Returned(tk, "invalid", NoCid)
                 ELSE IF Len(b.hashes) # 1 THEN Returned(tk, "ok", head.hashes[1])
                 ELSE tk)

\* the end of splice: head = levels.pop(), then the empty node or the
\* collapse loop with its gets
collapseStep(st, tk) ==
    LET head == tk.lv[Len(tk.lv)]
    IN  IF Len(head.hashes) = 0
        THEN ReturnNode(tk, ListNode(TRUE, <<>>, <<>>))
        ELSE Let(collapseLoop(st, head.hashes[1]), LAMBDA r :
                 Returned(tk, r.status, r.root))

\* the for (i ..) loop of splice, resumed: the test 'if we are at the top of
\* the tree, terminate' of the round before, then the next round up to
\* await Promise.all(nextHashes)
rebuildStep(st, tk) ==
    LET i      == tk.i
        lv1    == IF i = Len(tk.lv) - 1 THEN Append(tk.lv, EmptyLevel) ELSE tk.lv
        parent == Lv(lv1, i + 1)
    IN  IF (i > 0 /\ i + 1 = Len(tk.lv) /\ Len(Lv(tk.lv, i).hashes) <= 1)
           \/ i >= Len(tk.lv)
        THEN collapseStep(st, tk)
        ELSE Let([lv1 EXCEPT
                    ![i + 2].count = ArraySplice(parent.count, parent.start,
                        parent.end - parent.start, Lv(lv1, i).count),
                    ![i + 2].hashes = ArraySplice(parent.hashes, parent.start,
                        parent.end - parent.start, Lv(lv1, i).hashes)], LAMBDA lv2 :
             Let(rechunk(st, lv2, i, 0, <<>>, <<>>), LAMBDA c :
             IF c.err THEN Returned(tk, "invalid", NoCid)
             ELSE [tk EXCEPT !.lv = c.levels, !.i = i + 1,
                             !.kids = Len(Lv(lv2, i + 1).hashes),
                             !.pending = Blocks(Lv(c.levels, i + 1).hashes)]))

\* --- RabinBTree ------------------------------------------------------------
\* a call up to its first put: create; upsert and remove with _levels; eq
btCallStep(st, rt, tk) ==
    CASE tk.op = "create" ->
            LET data     == tk.in.data
                prevKeys == SortSeq(data.order, LAMBDA a, b : compare(a, b) < 0)
            IN  IF Len(data.order) = 0
                THEN ReturnNode(tk, MapNode(TRUE, <<>>, <<>>, <<>>))
                ELSE [tk EXCEPT !.pc = "level",
                        !.lv = [leaf |-> TRUE, count |-> Ones(prevKeys),
                                keys |-> prevKeys,
                                hashes |-> [j \in 1..Len(prevKeys) |->
                                               MapGet(data, prevKeys[j])]]]
      [] tk.op = "eq" ->
            Let(eq(st, rt, tk.in.key), LAMBDA r : Returned(tk, r.status, r.value))
      [] OTHER ->
            Let(btLevels(st, rt, TRUE, tk.in.key, <<>>), LAMBDA l :
                IF l.tag = "invalid" THEN Returned(tk, "invalid", NoCid)
                ELSE IF tk.op = "upsert"
                THEN IF Len(l.levels) = 0
                     THEN ReturnNode(tk, MapNode(TRUE, <<1>>, <<tk.in.key>>,
                                                 <<tk.in.value>>))
                     ELSE [tk EXCEPT !.pc = "rebuild",
                             !.lv = [l.levels EXCEPT
                                       ![1].count = Append(@, 1),
                                       ![1].keys = Append(@, tk.in.key),
                                       ![1].hashes = Append(@, tk.in.value)]]
                ELSE IF Len(l.levels) <= 1
                THEN ReturnNode(tk, MapNode(TRUE, <<>>, <<>>, <<>>))
                ELSE IF Lv(l.levels, 1).start = Lv(l.levels, 1).end
                THEN Returned(tk, "ok", rt)
                ELSE [tk EXCEPT !.pc = "rebuild", !.lv = l.levels])

\* the do .. while loop of create, resumed
btCreateStep(st, tk) ==
    IF tk.i > 0 /\ Len(tk.lv.hashes) = 1
    THEN Returned(tk, "ok", tk.lv.hashes[1])
    ELSE Let(btCreateLevel(st, tk.lv.leaf, tk.lv.count, tk.lv.keys, tk.lv.hashes, 0,
                           <<>>, <<>>, <<>>), LAMBDA l :
             [tk EXCEPT !.lv = [leaf |-> FALSE, count |-> l.count, keys |-> l.keys,
                                hashes |-> l.hashes],
                        !.i = @ + 1, !.kids = Len(tk.lv.hashes),
                        !.pending = Blocks(l.hashes)])

\* the end of _rebuild
btCollapseStep(st, tk) ==
    LET head == tk.lv[Len(tk.lv)]
    IN  IF Len(head.hashes) = 0
        THEN ReturnNode(tk, MapNode(TRUE, <<>>, <<>>, <<>>))
        ELSE Let(btCollapseLoop(st, head.hashes[1]), LAMBDA r :
                 Returned(tk, r.status, r.root))

\* the for (i ..) loop of _rebuild, resumed
btRebuildStep(st, tk) ==
    LET i      == tk.i
        lv1    == IF i = Len(tk.lv) - 1 THEN Append(tk.lv, btEmptyLevel) ELSE tk.lv
        parent == Lv(lv1, i + 1)
        dc     == parent.end - parent.start
    IN  IF (i > 0 /\ i + 1 = Len(tk.lv) /\ Len(Lv(tk.lv, i).hashes) <= 1)
           \/ i >= Len(tk.lv)
        THEN btCollapseStep(st, tk)
        ELSE Let([lv1 EXCEPT
                    ![i + 2].count = ArraySplice(parent.count, parent.start, dc,
                                                 Lv(lv1, i).count),
                    ![i + 2].keys = ArraySplice(parent.keys, parent.start, dc,
                                                Lv(lv1, i).keys),
                    ![i + 2].hashes = ArraySplice(parent.hashes, parent.start, dc,
                                                  Lv(lv1, i).hashes)], LAMBDA lv2 :
             Let(btRechunk(st, lv2, i, 0, <<>>, <<>>, <<>>), LAMBDA c :
             IF c.err THEN Returned(tk, "invalid", NoCid)
             ELSE [tk EXCEPT !.lv = c.levels, !.i = i + 1,
                             !.kids = Len(Lv(lv2, i + 1).hashes),
                             !.pending = Blocks(Lv(c.levels, i + 1).hashes)]))

\* --- the collections and the calls -----------------------------------------
\* the lists and maps created before the calls start: empty, one leaf,
\* MaxLeaves full leaves and one more element
StepSizes == {0, 2, MaxLeaves * LeafLen + 1}

\* the calls on a list of n elements: a create, an insert at the front, a
\* delete in the middle, a delete of all, a delete of all but the first, at
ListCalls(n) ==
    {[op |-> "create", items |-> Evens(LeafLen + 1)],
     [op |-> "splice", start |-> 0, deleteCount |-> 0, items |-> <<E(1)>>],
     [op |-> "splice", start |-> n \div 2, deleteCount |-> 1, items |-> <<>>],
     [op |-> "splice", start |-> 0, deleteCount |-> n + 1, items |-> <<>>],
     [op |-> "splice", start |-> 1, deleteCount |-> n - 1, items |-> <<>>],
     [op |-> "at", index |-> n - 1]}

\* the calls on a map of the keys 2, 4, .. 2n: a create, an upsert below
\* all keys and one above, a remove of the first key and of an absent one, eq
MapCalls(n) ==
    {[op |-> "create", data |-> MapOf(LeafLen + 1, 0)],
     [op |-> "upsert", key |-> 1, value |-> E(2)],
     [op |-> "upsert", key |-> 2 * n + 1, value |-> E(4)],
     [op |-> "remove", key |-> 2],
     [op |-> "remove", key |-> 2 * n + 1],
     [op |-> "eq", key |-> 2]}

InitStep ==
    /\ kind \in {"list", "map"}
    /\ \E n \in StepSizes :
           /\ list = IF kind = "list" THEN Evens(n) ELSE <<>>
           /\ map = IF kind = "map" THEN MapOf(n, 0) ELSE EmptyMap
    /\ LET r == IF kind = "list" THEN create({}, list) ELSE btCreate({}, map)
       IN  store = r.st /\ root = r.root
    /\ hist = [t \in 1..MaxCalls |-> Idle]
    /\ last = Call("init", "ok", NoCid, NoArgs, NoArgs)
    /\ ops = 0

\* the call t is made: it runs up to its first put
Start(t, c) ==
    /\ t = ops + 1
    /\ hist[t].pc = "idle"
    /\ hist' = [hist EXCEPT ![t] =
                  IF kind = "list"
                  THEN callStep(store, root, [@ EXCEPT !.op = c.op, !.in = c])
                  ELSE btCallStep(store, root, [@ EXCEPT !.op = c.op, !.in = c])]
    /\ ops' = ops + 1
    /\ UNCHANGED <<store, kind, root, list, map, last>>

\* storage.put of one pending block of the call t
Put(t, block) ==
    /\ block \in hist[t].pending
    /\ store' = put(store, block)
    /\ hist' = [hist EXCEPT ![t].pending = @ \ {block}]
    /\ UNCHANGED <<kind, root, list, map, last, ops>>

\* await Promise.all(nextHashes) of the call t resolves: the level loop of
\* create, or of splice and _rebuild, goes on
Resume(t) ==
    /\ hist[t].pc \in {"level", "rebuild"}
    /\ hist[t].pending = {}
    /\ hist' = [hist EXCEPT ![t] =
                  IF kind = "list"
                  THEN IF @.pc = "level" THEN createStep(store, @)
                       ELSE rebuildStep(store, @)
                  ELSE IF @.pc = "level" THEN btCreateStep(store, @)
                       ELSE btRebuildStep(store, @)]
    /\ UNCHANGED <<store, kind, root, list, map, last, ops>>

\* return await this.serializeNode(..) of the call t resolves
Return(t) ==
    /\ hist[t].pc = "ret"
    /\ hist[t].pending = {}
    /\ hist' = [hist EXCEPT ![t].pc = "done"]
    /\ UNCHANGED <<store, kind, root, list, map, last, ops>>

\* the steps of the call t once made
StepOf(t) ==
    \/ \E block \in hist[t].pending : Put(t, block)
    \/ Resume(t)
    \/ Return(t)

NextStep ==
    \/ \E t \in 1..MaxCalls :
           \E c \in IF kind = "list" THEN ListCalls(Len(list))
                    ELSE MapCalls(Len(map.order)) : Start(t, c)
    \/ \E t \in 1..MaxCalls : StepOf(t)

SpecStep == InitStep /\ [][NextStep]_vars

\* every get and put returns, and the event loop resumes every call that
\* can go on
SpecStepFair == SpecStep /\ \A t \in 1..MaxCalls : WF_vars(StepOf(t))

\* ------------------------------------------------------------------------
\* The claims
\* ------------------------------------------------------------------------
\* the bounds of a rank scan as the code reads them from its options
ScanLo(options) == IF "lo" \in options.has THEN Max(options.lo, 0) ELSE 0

ScanHi(options) == IF "hi" \in options.has THEN options.hi ELSE Infinity

\* the value bound to k in the plain Map, NoCid (null) if there is none
Bound(m, k) == IF MapHas(m, k) THEN MapGet(m, k) ELSE NoCid

\* C1: list canonicalization.  After a splice with 0 <= start <= size that
\* returned, the root returned is the root create gives for the plain array
\* that had the same splices applied.
C1_ListCanonical ==
    (kind = "list" /\ last.op = "splice" /\ last.status = "ok"
        /\ 0 <= last.in.start /\ last.in.start <= last.in.size)
    => last.res = create(store, last.want).root

\* C2: map canonicalization.  After an upsert or a remove that returned, the
\* root returned is the root create gives for the plain Map that had the
\* same updates applied.
C2_MapCanonical ==
    (kind = "map" /\ last.op \in {"upsert", "remove"} /\ last.status = "ok")
    => last.res = btCreate(store, last.want).root

\* C3: empty canonical form.  A splice that deletes all elements and a
\* remove that deletes the last key return the root of create of the empty
\* input: the leaf node with leaf = true and no counts, keys or children.
C3_EmptyCanonical ==
    /\ (kind = "list" /\ last.op = "splice" /\ last.in.start <= last.in.size
           /\ last.want = <<>>)
       => /\ last.status = "ok"
          /\ last.res = ListNode(TRUE, <<>>, <<>>)
          /\ last.res = create(store, <<>>).root
    /\ (kind = "map" /\ last.op = "remove" /\ last.in.had
           /\ last.want.order = <<>>)
       => /\ last.status = "ok"
          /\ last.res = MapNode(TRUE, <<>>, <<>>, <<>>)
          /\ last.res = btCreate(store, EmptyMap).root

\* a splice of a list of more than one leaf deleted all its elements
C3_Witness ==
    /\ kind = "list" /\ last.op = "splice" /\ last.status = "ok"
    /\ last.in.size > LeafLen /\ last.want = <<>> /\ list = <<>>

\* C4: collapse stops at a leaf.  When a splice, an upsert or a remove
\* leaves exactly one element, the call returns the leaf node that holds it,
\* the root create gives for that single element.
C4_CollapseStopsAtLeaf ==
    /\ (kind = "list" /\ last.op = "splice" /\ last.in.start <= last.in.size
           /\ Len(last.want) = 1)
       => /\ last.status = "ok"
          /\ last.res = create(store, last.want).root
    /\ (kind = "map" /\ last.op \in {"upsert", "remove"}
           /\ Len(last.want.order) = 1)
       => /\ last.status = "ok"
          /\ last.res = btCreate(store, last.want).root

\* C5: persistence.  Whatever was read (size, scan, at, eq) from a root when
\* it was returned is read from it after every later call, failed calls
\* included, and no call takes a block out of the store.
C5_Persistence ==
    /\ [](\A h \in hist :
             h.reads = IF kind = "list" THEN ListReads(store, h.root)
                       ELSE MapReads(store, h.root))
    /\ [][store \subseteq store']_vars

\* two roots were returned and the call after them failed, leaving blocks
C5_Witness ==
    /\ Cardinality(hist) >= 2
    /\ last.status = "invalid"
    /\ \E b \in store : \A h \in hist : b # h.root

\* C6: point access by rank.  at(create(xs), i) returns xs[i] for every
\* index 0 <= i < |xs|.
C6_AtCreate ==
    (kind = "list" /\ last.op = "at"
        /\ 0 <= last.in.index /\ last.in.index < Len(list))
    => /\ last.status = "ok"
       /\ last.res = Arr(list, last.in.index)

\* at returned an element of the second leaf
C6_Witness ==
    /\ kind = "list" /\ last.op = "at" /\ last.status = "ok"
    /\ last.in.index > LeafLen
    /\ last.res = E(2 * (last.in.index + 1))

\* C7: size identity.  For the root returned by create and by every splice,
\* upsert and remove, size is the sum of the counts of the root node and
\* the number of elements of the plain array or Map.
C7_SizeIdentity ==
    /\ kind = "list" =>
          /\ size(store, root) = [status |-> "ok", value |-> Len(list)]
          /\ LET node == parseNode(store, root)
             IN  Len(list) = sum(node.count, 0, Len(node.count))
    /\ kind = "map" =>
          /\ btSize(store, root) = [status |-> "ok", value |-> Len(map.order)]
          /\ LET node == btParseNode(store, root)
             IN  Len(map.order) = sum(node.count, 0, Len(node.count))

\* the root of a list of more than one leaf, after two splices
C7_Witness ==
    /\ kind = "list" /\ ops >= 2 /\ last.op = "splice" /\ last.status = "ok"
    /\ Len(list) > LeafLen /\ Len(parseNode(store, root).count) > 1

\* C8: rank scan.  On a collection built by create, scan(root, {lo, hi})
\* ends normally and has yielded the elements of rank lo .. min(hi, n) - 1
\* in order, each once.
C8_RankScan ==
    /\ (kind = "list" /\ last.op = "scan" /\ last.in.has \subseteq {"lo", "hi"})
       => /\ last.status = "done"
          /\ last.res = Slice(list, ScanLo(last.in), Min(ScanHi(last.in), Len(list)))
    /\ (kind = "map" /\ last.op = "scan" /\ last.in.has \subseteq {"lo", "hi"})
       => /\ last.status = "done"
          /\ last.res = Slice(Entries(map), ScanLo(last.in),
                              Min(ScanHi(last.in), Len(map.order)))

\* C9: key lookup.  eq(root, k) is the value bound to k in the plain Map,
\* null when there is none, for the root returned by create and by every
\* upsert and remove; and an upsert of (k, v) returns a root whose eq of k
\* is v.
C9_KeyLookup ==
    /\ kind = "map" =>
          \A k \in KeyInputs(Len(map.order)) :
              eq(store, root, k) = [status |-> "ok", value |-> Bound(map, k)]
    /\ (kind = "map" /\ last.op = "upsert")
       => /\ last.status = "ok"
          /\ eq(store, last.res, last.in.key)
                 = [status |-> "ok", value |-> last.in.value]

\* C10: key-bounded scan.  For present keys a <= b, scan(root, {le: a,
\* gt: b}) yields the entries with a <= key < b in ascending key order.
C10_KeyBoundedScan ==
    (kind = "map" /\ last.op = "scan" /\ last.in.has = {"le", "gt"})
    => last.res = SelectSeq(Entries(map),
                            LAMBDA e : last.in.le <= e.key /\ e.key < last.in.gt)

\* C11: list bounds errors.  A splice with start < 0 or start > size(root)
\* fails with the out-of-bounds error and returns no root, the empty list
\* included; at(root, i) with i < 0 or i >= size(root) fails with the
\* out-of-bounds error and returns no element.
C11_ListBounds ==
    /\ (kind = "list" /\ last.op = "splice"
        /\ (last.in.start < 0 \/ last.in.start > last.in.size))
       => (last.status = "oob" /\ last.res = NoCid)
    /\ kind = "list" =>
          \A i \in {-1, Len(list), Len(list) + 1} :
              at(store, root, i) = [status |-> "oob", value |-> NoCid]

\* C12: map rank access out of range.  at(root, i) with i < 0 or
\* i >= size(root) returns no entry and raises no error.
C12_MapAtOutOfRange ==
    (kind = "map" /\ last.op = "at"
     /\ (last.in.index < 0 \/ last.in.index >= Len(map.order)))
    => (last.status = "ok" /\ last.res = NoEntry)

\* C13: remove of an absent key is a no-op.  On a non-empty map, remove of a
\* key the map does not hold (below all keys, above all keys or between
\* two keys) returns the root it was given and puts no block.
C13_RemoveAbsent ==
    [][(kind = "map" /\ last'.op = "remove" /\ ops' = ops + 1
        /\ Len(map.order) > 0 /\ ~MapHas(map, last'.in.key))
       => (last'.status = "ok" /\ last'.res = root /\ root' = root
           /\ store' = store)]_vars

\* the root of two levels was returned by a remove of a key that lies
\* between two keys of the map and is not one of them
C13_Witness ==
    /\ kind = "map" /\ last.op = "remove" /\ last.status = "ok"
    /\ ~last.in.had
    /\ Len(map.order) > LeafLen
    /\ \E i, j \in 1..Len(map.order) :
           map.order[i] < last.in.key /\ last.in.key < map.order[j]
    /\ ~root.leaf

\* C14: upsert/remove algebra.  For every map root r, as root CIDs:
\* remove(upsert(r, k, v), k) = remove(r, k) for every key k absent in r,
\* and upsert(upsert(r, k, v1), k, v2) = upsert(r, k, v2) for every key k.
C14_UpsertRemoveAlgebra ==
    kind = "map" =>
        \A k \in KeyInputs(Len(map.order)) :
            Let(upsert(store, root, k, E(1)), LAMBDA u :
            Let(upsert(store, root, k, E(2)), LAMBDA w :
                /\ ~MapHas(map, k) =>
                       Let(remove(store, root, k), LAMBDA d :
                       Let(remove(u.st, u.root, k), LAMBDA ud :
                           /\ u.status = "ok" /\ d.status = "ok"
                           /\ ud.status = "ok" /\ ud.root = d.root))
                /\ Let(upsert(u.st, u.root, k, E(2)), LAMBDA uw :
                       /\ u.status = "ok" /\ w.status = "ok"
                       /\ uw.status = "ok" /\ uw.root = w.root)))

\* C15: deleteCount is clamped.  For 0 <= start <= size(r) and
\* d > size(r) - start, splice(r, start, d, ...items) ends as
\* splice(r, start, size(r) - start, ...items) does, with the same root; the
\* deletion runs through the right siblings to the end of the list, so the
\* root returned holds the elements before start followed by the items.
C15_DeleteCountClamped ==
    [][(kind = "list" /\ last'.op = "splice" /\ ops' = ops + 1
        /\ 0 <= last'.in.start /\ last'.in.start <= Len(list)
        /\ last'.in.deleteCount > Len(list) - last'.in.start)
       => Let(splice(store, root, last'.in.start, Len(list) - last'.in.start,
                     last'.in.items), LAMBDA c :
              /\ last'.status = c.status
              /\ last'.res = c.root
              /\ store' = c.st
              /\ last'.status = "ok"
                 => scan(store', last'.res, NoOpt).out
                        = SubSeq(list, 1, last'.in.start) \o last'.in.items)]_vars

\* a splice whose deleteCount runs past the end returned a root: it started
\* in the first leaf of a list of more than one leaf and kept what was
\* before start
C15_Witness ==
    /\ kind = "list" /\ last.op = "splice" /\ last.status = "ok"
    /\ 0 < last.in.start /\ last.in.start <= LeafLen
    /\ last.in.size > LeafLen
    /\ last.in.deleteCount > last.in.size - last.in.start
    /\ Len(list) = last.in.start + Len(last.in.items)
    /\ last.res = root

\* the count recurrence in the node and in every node below it: as many
\* counts as children, 1 for each child of a leaf, and for each child of an
\* internal node the sum of that child node's counts
RECURSIVE CountRecurrence(_, _)
CountRecurrence(st, node) ==
    /\ node \in st
    /\ Len(node.count) = Len(node.hashes)
    /\ IF node.leaf
       THEN \A i \in 1..Len(node.count) : node.count[i] = 1
       ELSE \A i \in 1..Len(node.count) :
                /\ node.hashes[i] \in st
                /\ node.count[i] = sum(node.hashes[i].count, 0,
                                       Len(node.hashes[i].count))
                /\ CountRecurrence(st, node.hashes[i])

\* C16: count recurrence.  In every node reachable from a root returned by
\* create, splice, upsert or remove, counts is as long as children, every
\* count of a leaf is 1, and counts[i] of an internal node is the sum of the
\* counts of the child node children[i].
C16_CountRecurrence ==
    kind # "none" => CountRecurrence(store, root)

\* a root of several leaves of different sizes, returned by the second
\* mutation of a map
C16_Witness ==
    /\ kind = "map" /\ ops = 2 /\ last.status = "ok" /\ last.res = root
    /\ ~root.leaf
    /\ \E i, j \in 1..Len(root.count) :
           root.count[i] > 1 /\ root.count[j] > root.count[i]

\* the keys held in the leaves below a node
RECURSIVE SubtreeKeys(_, _)
SubtreeKeys(st, node) ==
    IF node.leaf
    THEN {node.keys[i] : i \in 1..Len(node.keys)}
    ELSE UNION {SubtreeKeys(st, node.hashes[i]) : i \in 1..Len(node.hashes)}

\* the key invariant in the node and in every node below it: keys strictly
\* ascending under the comparator, and keys[i] of an internal node the
\* least key below children[i]
RECURSIVE KeyInvariant(_, _)
KeyInvariant(st, node) ==
    /\ node \in st
    /\ Len(node.keys) = Len(node.hashes)
    /\ \A i \in 1..(Len(node.keys) - 1) :
           compare(node.keys[i], node.keys[i + 1]) < 0
    /\ ~node.leaf =>
           \A i \in 1..Len(node.keys) :
               /\ node.hashes[i] \in st
               /\ KeyInvariant(st, node.hashes[i])
               /\ node.keys[i] \in SubtreeKeys(st, node.hashes[i])
               /\ \A k \in SubtreeKeys(st, node.hashes[i]) :
                      compare(node.keys[i], k) <= 0

\* C17: map key invariant.  In every node reachable from a root returned by
\* create, upsert or remove, keys is strictly ascending under the comparator
\* and keys[i] is the least key of the subtree rooted at children[i].
C17_KeyInvariant ==
    kind = "map" => KeyInvariant(store, root)

\* an upsert of a key below all the keys of a map of more than one leaf
\* returned a root of more than one leaf whose first key is that key
C17_Witness ==
    /\ kind = "map" /\ last.op = "upsert" /\ last.status = "ok"
    /\ ~last.in.had
    /\ \A i \in 1..Len(last.want.order) : last.in.key <= last.want.order[i]
    /\ last.res = root /\ ~root.leaf /\ Len(root.keys) >= 2
    /\ root.keys[1] = last.in.key

\* the children of the nodes of a level, concatenated left to right
RECURSIVE LevelChildren(_)
LevelChildren(nodes) ==
    IF nodes = <<>> THEN <<>>
    ELSE Head(nodes).hashes \o LevelChildren(Tail(nodes))

\* the lengths of the runs the chunker emits from lo on:
\* for (lo = 0; lo < data.length; lo = hi) hi = nextChunk(data, lo)
RECURSIVE ChunkSizes(_, _)
ChunkSizes(data, lo) ==
    IF lo >= Len(data) THEN <<>>
    ELSE Let(nextChunk(data, lo), LAMBDA hi :
             <<hi - lo>> \o ChunkSizes(data, hi))

\* the chunking law on a level, given as the sequence of its nodes, and on
\* every level below it
RECURSIVE ChunkingLaw(_)
ChunkingLaw(nodes) ==
    Let(LevelChildren(nodes), LAMBDA data :
        /\ IF data = <<>> THEN Len(nodes) = 1
           ELSE ChunkSizes(data, 0) = [i \in 1..Len(nodes) |-> Len(nodes[i].hashes)]
        /\ \A i \in 1..Len(nodes) :
               /\ Len(nodes[i].hashes) <= MAX_SIZE
               /\ i < Len(nodes) => Len(nodes[i].hashes) >= MIN_SIZE
        /\ Head(nodes).leaf \/ ChunkingLaw(data))

\* C18: chunking law.  In every tree returned by create, splice, upsert or
\* remove, the nodes of each level are exactly the runs the chunker emits
\* when run left to right over the concatenated children of that level; no
\* node has more than MAX_SIZE children and every node with a right
\* neighbour on its level has at least MIN_SIZE children.
C18_ChunkingLaw ==
    kind # "none" => ChunkingLaw(<<root>>)

\* the chunker, run from the first of the children of a node, returns at
\* the last of them from inside its second loop (the masks are clear) or
\* after MAX_SIZE entries, and not because the data ended
BoundaryAtEnd(hashes) ==
    LET n == Min(Len(hashes), MAX_SIZE)
    IN  /\ n >= MIN_SIZE
        /\ Let(CutLoop(hashes, MIN_SIZE, n,
                       WarmUp(hashes, 0, MIN_SIZE, [flo |-> ZERO32, fhi |-> ZERO32])),
               LAMBDA c : c.ptr = Len(hashes) /\ (c.cut \/ n = MAX_SIZE))

\* on a level, given as the sequence of its nodes, and on every level below
\* it, only the last node is a tail the chunker found no boundary for
RECURSIVE TailsAreLast(_)
TailsAreLast(nodes) ==
    /\ \A i \in 1..(Len(nodes) - 1) : BoundaryAtEnd(nodes[i].hashes)
    /\ Head(nodes).leaf \/ TailsAreLast(LevelChildren(nodes))

\* C19: seam extension during rebuild.  When a level is re-emitted and the
\* chunker finds no boundary before the end of the working copy while unread
\* right siblings remain, their children are brought in and the chunker is
\* re-run before the chunk is emitted; the tail is taken as the final chunk
\* only when extension is exhausted.  So in the tree a splice, upsert or
\* remove returns, a node emitted without a boundary at its end has no right
\* neighbour on its level.
C19_SeamExtension ==
    (kind # "none" /\ last.op \in {"splice", "upsert", "remove"}
     /\ last.status = "ok")
    => TailsAreLast(<<root>>)

\* C20: chunker bounds.  For every data array and every start below its
\* length, nextChunk(data, start) returns hi with start < hi <= length and
\* hi - start <= MAX_SIZE; it returns the length whenever fewer than MIN_SIZE
\* entries remain, and hi - start >= MIN_SIZE unless hi is the length.
C20_ChunkerBounds ==
    last.op = "nextChunk" =>
        /\ last.in.start < last.res
        /\ last.res <= last.in.len
        /\ last.res - last.in.start <= MAX_SIZE
        /\ last.in.len - last.in.start < MIN_SIZE => last.res = last.in.len
        /\ last.res - last.in.start >= MIN_SIZE \/ last.res = last.in.len

\* the chunker returned after MAX_SIZE entries with entries left over
C20_Witness ==
    /\ last.op = "nextChunk"
    /\ last.res - last.in.start = MAX_SIZE
    /\ last.res < last.in.len

\* C21: content-defined boundaries.  A run of children that occurs inside
\* two children sequences gets the same boundaries inside it when each
\* sequence is chunked left to right, whatever precedes or follows the run:
\* the boundaries inside the data array are those it gets with nothing
\* around it.
C21_ContentDefined ==
    last.op = "chunks" =>
        last.res = {h \in ChunkEnds(list, 0) : h < Len(list)}

\* C22: scan completes normally at the end of the collection.  A scan whose
\* range starts inside the collection and extends past its last element
\* ends without an error once the last element has been yielded, also when
\* the root is a single leaf.
C22_ScanCompletes ==
    (kind # "none" /\ last.op = "scan" /\ last.in.has \subseteq {"lo", "hi"}
     /\ ScanLo(last.in) < Len(IF kind = "list" THEN list ELSE map.order)
     /\ ScanHi(last.in) > Len(IF kind = "list" THEN list ELSE map.order))
    => last.status = "done"

\* C23: end predicate is terminal.  In a map scan from the key le with gt or
\* ge, once the end predicate has triggered for an element the scan yields
\* no further element, from the current leaf or from a later one: no
\* yielded key is at or after a key of the scanned range for which the
\* predicate holds.
C23_EndTerminal ==
    (kind = "map" /\ last.op = "scan" /\ "le" \in last.in.has
     /\ ("gt" \in last.in.has \/ "ge" \in last.in.has))
    => \A i \in 1..Len(last.res) :
           \A j \in 1..Len(map.order) :
               (compare(last.in.le, map.order[j]) <= 0
                /\ endBreak(last.in, map.order[j]))
               => compare(last.res[i].key, map.order[j]) < 0

\* the entries of the plain Map in key order from the start key on: key >= k
\* for le = k, key > k for lt = k
FromKey(m, options) ==
    SelectSeq(Entries(m),
              LAMBDA e : IF "lt" \in options.has THEN compare(e.key, options.lt) > 0
                         ELSE compare(e.key, options.le) >= 0)

\* C24: start-key semantics.  A map scan with le = k yields keys >= k only,
\* with lt = k keys > k only, whether or not k is in the map and wherever k
\* falls relative to the leaves, and skips no entry from the start key on:
\* with no end bound it yields exactly the entries from the start key on.
C24_StartKey ==
    (kind = "map" /\ last.op = "scan"
     /\ (last.in.has = {"le"} \/ last.in.has = {"lt"}))
    => last.res = FromKey(map, last.in)

\* the number of elements in the range a scan asks for: the ranks
\* lo .. min(hi, n) - 1, or the entries from the start key on
InRange(n, m, options) ==
    IF "lt" \in options.has \/ "le" \in options.has
    THEN Len(FromKey(m, options))
    ELSE Max(Min(ScanHi(options), n) - ScanLo(options), 0)

\* C25: limit.  A scan with limit = L yields at most L elements, and exactly
\* min(L, number of elements in the requested rank or key range).
C25_Limit ==
    (kind # "none" /\ last.op = "scan" /\ "limit" \in last.in.has)
    => /\ Len(last.res) <= last.in.limit
       /\ Len(last.res) = Min(last.in.limit,
                              IF kind = "list" THEN InRange(Len(list), EmptyMap, last.in)
                              ELSE InRange(Len(map.order), map, last.in))

\* the number of levels below a node along its first children
RECURSIVE LeftHeight(_, _)
LeftHeight(st, node) ==
    IF node.leaf \/ Len(node.hashes) = 0 \/ "leaf" \notin DOMAIN node.hashes[1]
    THEN 0
    ELSE 1 + LeftHeight(st, node.hashes[1])

\* a node h levels above the leaves: at h = 0 it is flagged leaf and its
\* children are elements; above, it is not flagged leaf and its children
\* are stored nodes h - 1 levels above the leaves
RECURSIVE UniformDepth(_, _, _)
UniformDepth(st, node, h) ==
    /\ node \in st
    /\ node.leaf <=> h = 0
    /\ \A i \in 1..Len(node.hashes) :
           IF h = 0
           THEN DOMAIN node.hashes[i] = {"elem"}
           ELSE /\ "leaf" \in DOMAIN node.hashes[i]
                /\ UniformDepth(st, node.hashes[i], h - 1)

\* the children of the leaves below a node, left to right
RECURSIVE LeafChildren(_, _)
LeafChildren(st, node) ==
    IF node.leaf THEN node.hashes
    ELSE LevelChildren([i \in 1..Len(node.hashes) |->
             [hashes |-> LeafChildren(st, node.hashes[i])]])

\* C29: uniform depth.  In every tree produced by create or by a sequence
\* of splice, upsert and remove, all the nodes flagged leaf are at the same
\* depth below the root, every node above them is not flagged leaf, and the
\* children of the leaves are exactly the elements of the collection.
C29_UniformDepth ==
    kind # "none" =>
        /\ UniformDepth(store, root, LeftHeight(store, root))
        /\ LeafChildren(store, root)
               = IF kind = "list" THEN list
                 ELSE [i \in 1..Len(map.order) |-> Entries(map)[i].value]

\* a splice, upsert or remove returned a root two levels above the elements
C29_Witness ==
    /\ last.op \in {"splice", "upsert", "remove"}
    /\ last.status = "ok" /\ last.res = root
    /\ LeftHeight(store, root) = 1
    /\ Len(root.hashes) >= 2
    /\ \A i \in 1..Len(root.hashes) : root.hashes[i].leaf

\* C30: fingerprint carry.  In each fingerprint update of nextChunk the
\* carry added into fhi is 1 exactly when (flo << 1) + g overflows 32 bits
\* and 0 otherwise, g being the unsigned word of the last four bytes of the
\* child CID; flo and fhi stay within 0 .. 2^32 - 1.
C30_FingerprintCarry ==
    (last.op = "fp" /\ "f" \in DOMAIN last.in) =>
        LET s     == Shl1(last.in.f.flo)
            g     == gear(last.in.cid).u
            l     == s[2] + g[2]
            h     == s[1] + g[1] + (l \div W16)
            carry == IF h >= W16 THEN 1 ELSE 0
            h2    == Shl1(last.in.f.fhi)
            hc    == h2[2] + carry
        IN  /\ last.res.fhi = <<(h2[1] + (hc \div W16)) % W16, hc % W16>>
            /\ \A w \in {last.res.flo, last.res.fhi} :
                   \A k \in 1..2 : 0 <= w[k] /\ w[k] < W16

\* the store holds every child node of every internal node it holds
StoreClosed(st) ==
    \A b \in st : ~b.leaf => \A j \in 1..Len(b.hashes) : b.hashes[j] \in st

\* C26: write ordering.  At every point during create, splice, upsert and
\* remove, when the block of an internal node is put into the store the
\* blocks of all its child nodes are in the store already, and every
\* internal node in the store has all its children in the store.
C26_WriteOrdering ==
    /\ []StoreClosed(store)
    /\ [][\A b \in store' \ store :
              ~b.leaf => \A j \in 1..Len(b.hashes) : b.hashes[j] \in store]_vars

\* a call has put the internal nodes of a level of two or more child nodes
\* and waits to be resumed, while the blocks of another call are pending
C26_Witness ==
    \E t, u \in 1..MaxCalls :
        /\ hist[t].op \in {"create", "splice", "upsert", "remove"}
        /\ hist[t].pc \in {"level", "rebuild"}
        /\ hist[t].i >= 2 /\ hist[t].kids >= 2 /\ hist[t].pending = {}
        /\ IF hist[t].pc = "level"
           THEN Blocks(hist[t].lv.hashes) \subseteq store
           ELSE Blocks(Lv(hist[t].lv, hist[t].i).hashes) \subseteq store
        /\ hist[u].pending # {}

\* the result of the call alone, on the store as it was when the calls
\* started
Alone(tk) ==
    LET st == IF kind = "list" THEN create({}, list).st ELSE btCreate({}, map).st
        c  == tk.in
    IN  CASE tk.op = "at"     -> at(st, root, c.index)
          [] tk.op = "eq"     -> eq(st, root, c.key)
          [] tk.op = "splice" ->
                Let(splice(st, root, c.start, c.deleteCount, c.items), LAMBDA r :
                    [status |-> r.status, value |-> r.root])
          [] tk.op = "upsert" ->
                Let(upsert(st, root, c.key, c.value), LAMBDA r :
                    [status |-> r.status, value |-> r.root])
          [] tk.op = "remove" ->
                Let(remove(st, root, c.key), LAMBDA r :
                    [status |-> r.status, value |-> r.root])
          [] OTHER ->
                Let(IF kind = "list" THEN create(st, c.items) ELSE btCreate(st, c.data),
                    LAMBDA r : [status |-> r.status, value |-> r.root])

\* C27: interleaving independence.  When the get and put steps of two or
\* more operations over one shared store are interleaved arbitrarily at
\* their suspension points, each operation returns the same result (root
\* CID or value) as when it runs alone.
C27_Interleaving ==
    \A t \in 1..MaxCalls : hist[t].pc = "done" => hist[t].res = Alone(hist[t])

\* the second call, a mutation of two or more levels, was made after the
\* first and has returned its root while blocks of the first, a mutation
\* too, are still pending
C27_Witness ==
    /\ hist[2].pc = "done" /\ hist[2].res.status = "ok"
    /\ hist[2].op \in {"splice", "upsert", "remove"}
    /\ hist[2].i >= 2
    /\ hist[1].op \in {"splice", "upsert", "remove"}
    /\ hist[1].pc = "rebuild" /\ hist[1].i >= 1
    /\ hist[1].pending # {}

\* the number of nodes of the level the call has emitted last
LevelNodes(tk) ==
    IF tk.pc = "level" THEN Len(tk.lv.hashes) ELSE Len(Lv(tk.lv, tk.i).hashes)

\* every call made returns or throws
Terminates ==
    \A t \in 1..MaxCalls : (hist[t].pc # "idle") ~> (hist[t].pc = "done")

\* C28 as stated: termination.  Every create, splice, upsert and remove
\* call on a finite input eventually returns or fails, provided each store
\* get and put returns; each re-emitted level has strictly fewer nodes than
\* it has children.
C28_StrictlyFewer ==
    /\ Terminates
    /\ [](\A t \in 1..MaxCalls :
              (hist[t].pc \in {"level", "rebuild"} /\ hist[t].i > 0) =>
                  LevelNodes(hist[t]) < hist[t].kids)

\* C28, amended: termination.  Every create, splice, upsert and remove call
\* on a finite input eventually returns or fails, provided each store get
\* and put returns; each re-emitted level of two or more children has
\* strictly fewer nodes than it has children, and a level of one child or
\* of none has as many nodes as children.
C28_Termination ==
    /\ Terminates
    /\ [](\A t \in 1..MaxCalls :
              (hist[t].pc \in {"level", "rebuild"} /\ hist[t].i > 0) =>
                  IF hist[t].kids >= 2
                  THEN LevelNodes(hist[t]) < hist[t].kids
                  ELSE LevelNodes(hist[t]) = hist[t].kids)

\* every call has returned, one of them a mutation that re-emitted two
\* levels or more and returned its new root
C28_Witness ==
    /\ \A t \in 1..MaxCalls : hist[t].pc = "done"
    /\ \E t \in 1..MaxCalls :
           /\ hist[t].op \in {"splice", "upsert", "remove"}
           /\ hist[t].res.status = "ok"
           /\ hist[t].i >= 2

====
